---------------------------- MODULE Spec2Model ----------------------------
(***************************************************************************)
(* State-machine model of the GovMatch matching pipeline:                  *)
(*   MatchingController.createMatching -> MatchingService.matchPrograms    *)
(*   -> FilteringService (hard filter, lexical relevance filter)           *)
(*   -> ScoringService (five weighted sub-scores)                          *)
(*   -> LlmMatchingService (Assistant tier, batch tier, rule-based tier)   *)
(*   with OpenAIService as the reasoning-service client.                   *)
(*                                                                         *)
(* Conventions.                                                            *)
(*  - A text is a sequence of one-character atoms: a Hangul syllable is    *)
(*    written by its romanisation ("chang","eop" is the word chang-eop),   *)
(*    a Latin letter by itself in lower case, a blank by " ".  Substring   *)
(*    tests (String.includes, Prisma contains) are computed on them.       *)
(*  - NullText / NullNum stand for SQL NULL / JS null or undefined.        *)
(*  - A score s in [0,1] is the integer s * ONE; NaNScore is IEEE NaN.     *)
(*  - Money is counted in units of 100,000 KRW, time in ticks (DayTicks    *)
(*    ticks per day), the support rate in percent.                         *)
(***************************************************************************)
EXTENDS Integers, Sequences, FiniteSets, TLC

(***************************************************************************)
(* Bounds of the model                                                     *)
(***************************************************************************)
MaxPrograms == 12
MaxAnswers == 11
ScriptPeriod == 2
BatchScriptPeriod == 3

(***************************************************************************)
(* Program constants                                                       *)
(***************************************************************************)
ONE == 6000
DayTicks == 2
EmbeddingTopN == 50
LlmTopN == 20
FinalTopN == 10
MaxReasons == 5
BatchSize == 5
ConfidenceThreshold == 3000
BaseAmount == 100

NullNum == 0 - 1
NaNScore == 0 - 999999
NullText == <<"<null>">>
EmptyText == <<>>

(***************************************************************************)
(* Generic helpers                                                         *)
(***************************************************************************)
Min2(a, b) == IF a <= b THEN a ELSE b
Max2(a, b) == IF a >= b THEN a ELSE b
Range(s) == {s[i] : i \in DOMAIN s}
Prefix(s, n) == SubSeq(s, 1, Min2(Len(s), n))

\* JS String.prototype.includes on atom sequences ("" is included in anything)
Includes(text, kw) ==
    \E i \in 1..(Len(text) - Len(kw) + 1) : SubSeq(text, i, i + Len(kw) - 1) = kw

IncludesAny(text, kws) == \E k \in kws : Includes(text, k)

\* text.split(/\s+/): the maximal blank-free runs of the text, in order
RECURSIVE SplitFrom(_, _, _)
SplitFrom(text, i, cur) ==
    IF i > Len(text)
    THEN IF cur = <<>> THEN <<>> ELSE <<cur>>
    ELSE IF text[i] = " "
         THEN (IF cur = <<>> THEN <<>> ELSE <<cur>>) \o SplitFrom(text, i + 1, <<>>)
         ELSE SplitFrom(text, i + 1, Append(cur, text[i]))

Words(text) == SplitFrom(text, 1, <<>>)

RECURSIVE SelectSeqBy(_, _)
SelectSeqBy(s, keep) ==
    IF s = <<>> THEN <<>>
    ELSE (IF Head(s) \in keep THEN <<Head(s)>> ELSE <<>>) \o SelectSeqBy(Tail(s), keep)

\* [...new Set(s)]: first occurrences, in order
RECURSIVE Dedup(_)
Dedup(s) ==
    IF s = <<>> THEN <<>>
    ELSE LET r == Dedup(SubSeq(s, 1, Len(s) - 1))
             x == s[Len(s)]
         IN IF x \in Range(r) THEN r ELSE Append(r, x)

(***************************************************************************)
(* Lexicons of the source (romanised)                                      *)
(***************************************************************************)
KwChangeop == <<"chang", "eop">>
KwStartup == <<"seu", "ta", "teu", "eop">>
KwVenture == <<"ben", "cheo">>
KwGaein == <<"gae", "in">>
KwSosanggongin == <<"so", "sang", "gong", "in">>
KwSogieop == <<"so", "gi", "eop">>
KwJungsogieop == <<"jung", "so", "gi", "eop">>
KwJungso == <<"jung", "so">>
KwJunggyeongieop == <<"jung", "gyeon", "gi", "eop">>
KwJunggyeon == <<"jung", "gyeon">>
KwDaegieop == <<"dae", "gi", "eop">>
KwDae == <<"dae">>
KwGaebal == <<"gae", "bal">>

\* FilteringService.getRegionKeywords / ScoringService.getRegionKeyword
RegionMap(region) ==
    CASE region = "seoul" -> <<"seo", "ul">>
      [] region = "busan" -> <<"bu", "san">>
      [] region = "daegu" -> <<"dae", "gu">>
      [] region = "incheon" -> <<"in", "cheon">>
      [] region = "gwangju" -> <<"gwang", "ju">>
      [] region = "daejeon" -> <<"dae", "jeon">>
      [] region = "ulsan" -> <<"ul", "san">>
      [] region = "gyeonggi" -> <<"gyeong", "gi">>
      [] region = "gangwon" -> <<"gang", "won">>
      [] region = "jeju" -> <<"j", "e", "j", "u">>
      [] region = "other" -> <<"o", "t", "h", "e", "r">>
      [] OTHER -> <<>>

getRegionKeywords(region) == RegionMap(region)

(***************************************************************************)
(* FilteringService.applyHardFilters: the Prisma where-clause              *)
(***************************************************************************)
UrgencyDays(urgency) ==
    CASE urgency = "immediate" -> 30
      [] urgency = "short" -> 90
      [] urgency = "medium" -> 180
      [] urgency = "long" -> 365
      [] OTHER -> 0

\* category: { in: targetPrograms }, pushed only for a non-empty preference
CategoryCondition(p, r) ==
    (Len(r.targetPrograms) > 0) => (p.category \in Range(r.targetPrograms))

\* a region condition without the null alternative
RegionConditionExcludingNull(p, r) ==
    (r.region # "" /\ r.region # "other") =>
        (p.region # NullText /\ Includes(p.region, RegionMap(r.region)))

\* OR [ region: null, region contains keyword ], pushed unless region is
\* empty or 'other'
RegionCondition(p, r) ==
    (r.region # "" /\ r.region # "other") =>
        (p.region = NullText \/ (p.region # NullText /\ Includes(p.region, getRegionKeywords(r.region))))

\* buildTargetConditions: the contains-keywords of the requester
buildTargetConditions(r) ==
    (IF r.businessType = "startup" THEN {KwChangeop, KwStartup, KwVenture} ELSE {})
    \cup (IF r.businessType = "individual" THEN {KwGaein, KwSosanggongin} ELSE {})
    \cup (CASE r.employees = "1-9" -> {KwSogieop, KwSosanggongin}
            [] r.employees = "10-49" -> {KwJungsogieop, KwJungso}
            [] r.employees = "50-99" -> {KwJunggyeongieop, KwJunggyeon}
            [] OTHER -> {})

\* OR [ target: null, ...targetConditions ], pushed only when there are any
TargetCondition(p, r) ==
    (buildTargetConditions(r) # {}) =>
        (p.target = NullText \/ (p.target # NullText /\ IncludesAny(p.target, buildTargetConditions(r))))

\* buildDeadlineCondition: OR [ deadline: null, deadline <= now + horizon ]
DeadlineCondition(p, r, t) ==
    (r.urgency \in {"immediate", "short", "medium", "long"}) =>
        (p.deadline = NullNum \/ (p.deadline # NullNum /\ p.deadline <= t + UrgencyDays(r.urgency) * DayTicks))

\* a query without the active-programs condition
WithoutActiveCondition(p, t) == TRUE

\* OR [ deadline >= now, deadline: null ]
ActiveCondition(p, t) ==
    p.deadline = NullNum \/ (p.deadline # NullNum /\ p.deadline >= t)

WhereMatches(p, r, t) ==
    /\ CategoryCondition(p, r)
    /\ RegionCondition(p, r)
    /\ TargetCondition(p, r)
    /\ DeadlineCondition(p, r, t)
    /\ ActiveCondition(p, t)

\* orderBy deadline asc: PostgreSQL puts NULLs last; rows with equal keys are
\* kept in table order
DeadlineKey(p) == IF p.deadline = NullNum THEN 1000000 ELSE p.deadline

\* the position of row i of s in the ordered result: the rows with a smaller
\* key come first, then those with the same key that stand before it
RankAsc(s, i) ==
    Cardinality({j \in DOMAIN s :
                    \/ DeadlineKey(s[j]) < DeadlineKey(s[i])
                    \/ DeadlineKey(s[j]) = DeadlineKey(s[i]) /\ j <= i})

OrderByDeadline(s) == [k \in DOMAIN s |-> s[CHOOSE i \in DOMAIN s : RankAsc(s, i) = k]]

\* findMany({ where }): the rows that satisfy the conditions, in table order
FilterWhere(s, r, t) ==
    LET kept == {i \in DOMAIN s : WhereMatches(s[i], r, t)}
    IN  [k \in 1..Cardinality(kept) |->
            s[CHOOSE i \in kept : Cardinality({j \in kept : j <= i}) = k]]

applyHardFilters(table, r, t) == OrderByDeadline(FilterWhere(table, r, t))

(***************************************************************************)
(* FilteringService.applyEmbeddingFilters (lexical relevance filter)       *)
(***************************************************************************)
StopWords == {<<"gi", "ban">>, <<"tong", "hae">>, <<"wi", "han">>, <<"gwan", "ryeon">>}

RECURSIVE KeepKeywords(_)
KeepKeywords(ws) ==
    IF ws = <<>> THEN <<>>
    ELSE (IF Len(Head(ws)) > 1 /\ Head(ws) \notin StopWords THEN <<Head(ws)>> ELSE <<>>)
         \o KeepKeywords(Tail(ws))

\* split, drop one-character words and stop words, keep the first 10
extractKeywords(text) == Prefix(KeepKeywords(Words(text)), 10)

RECURSIVE CountHits(_, _)
CountHits(kws, text) ==
    IF kws = <<>> THEN 0
    ELSE (IF Includes(text, Head(kws)) THEN 1 ELSE 0) + CountHits(Tail(kws), text)

RECURSIVE TagHits(_, _)
TagHits(kws, tags) ==
    IF tags = <<>> THEN 0 ELSE CountHits(kws, Head(tags)) + TagHits(kws, Tail(tags))

embeddingScoreOf(p, kws) ==
    3 * CountHits(kws, p.title)
    + 2 * CountHits(kws, IF p.description = NullText THEN EmptyText ELSE p.description)
    + TagHits(kws, p.tags)

\* Array.prototype.sort((a, b) => b.key - a.key): a stable sort; the list is
\* built by inserting each element after the elements whose key is not
\* smaller.  A comparison with NaN yields NaN, which sort treats as "equal".
KeyLess(a, b) == a # NaNScore /\ b # NaNScore /\ a < b

RECURSIVE InsertDesc(_, _)
InsertDesc(sorted, x) ==
    IF sorted = <<>> THEN <<x>>
    ELSE IF KeyLess(Head(sorted).k, x.k)
         THEN <<x>> \o sorted
         ELSE <<Head(sorted)>> \o InsertDesc(Tail(sorted), x)

RECURSIVE InsertionSorted(_)
InsertionSorted(s) ==
    IF s = <<>> THEN <<>>
    ELSE InsertDesc(InsertionSorted(SubSeq(s, 1, Len(s) - 1)), s[Len(s)])

\* the position of element i of s in the sorted result when no key is NaN:
\* the elements with a larger key come first, then those with the same key
\* that stand before it
RankDesc(s, i) ==
    Cardinality({j \in DOMAIN s : s[j].k > s[i].k \/ (s[j].k = s[i].k /\ j <= i)})

\* without a NaN key the comparator orders the keys and the stable sort is
\* the list by rank; with one the result is that of the insertions
SortTagged(s) ==
    IF \E i \in DOMAIN s : s[i].k = NaNScore
    THEN InsertionSorted(s)
    ELSE [k \in DOMAIN s |-> s[CHOOSE i \in DOMAIN s : RankDesc(s, i) = k]]

\* the values of a sorted list of [k, v] records
Untagged(sorted) == [i \in 1..Len(sorted) |-> sorted[i].v]

EmbeddingKey(p) == IF p.embeddingScore = NullNum THEN 0 ELSE p.embeddingScore
MatchKey(p) == p.matchScore

\* the list left in the order it came in
KeepInputOrder(s) == s

\* sort((a, b) => (b.embeddingScore || 0) - (a.embeddingScore || 0))
SortByEmbeddingScore(s) ==
    Untagged(SortTagged([i \in 1..Len(s) |-> [k |-> EmbeddingKey(s[i]), v |-> s[i]]]))

\* sort((a, b) => b.matchScore - a.matchScore)
SortByMatchScore(s) ==
    Untagged(SortTagged([i \in 1..Len(s) |-> [k |-> MatchKey(s[i]), v |-> s[i]]]))

\* a variant that returns every scored program instead of the first 50
EmbeddingFiltersWithoutCap(programs, businessPurpose) ==
    IF businessPurpose = NullText \/ businessPurpose = EmptyText \/ programs = <<>>
    THEN programs
    ELSE LET kws == extractKeywords(businessPurpose)
             scored == [i \in 1..Len(programs) |->
                          [programs[i] EXCEPT !.embeddingScore = embeddingScoreOf(programs[i], kws)]]
         IN SortByEmbeddingScore(scored)

applyEmbeddingFilters(programs, businessPurpose) ==
    IF businessPurpose = NullText \/ businessPurpose = EmptyText \/ programs = <<>>
    THEN Prefix(programs, EmbeddingTopN)
    ELSE LET kws == extractKeywords(businessPurpose)
             scored == [i \in 1..Len(programs) |->
                          [programs[i] EXCEPT !.embeddingScore = embeddingScoreOf(programs[i], kws)]]
         IN Prefix(SortByEmbeddingScore(scored), EmbeddingTopN)

(***************************************************************************)
(* ScoringService: the five sub-scores, in tenths                          *)
(***************************************************************************)
\* getRelatedCategories
getRelatedCategories(targets) ==
    (IF "02" \in Range(targets) \/ "06" \in Range(targets) THEN {"02", "06"} ELSE {})
    \cup (IF "04" \in Range(targets) \/ "07" \in Range(targets) THEN {"04", "07"} ELSE {})

calculateCategoryScore(p, r) ==
    IF p.category = "" THEN 5
    ELSE IF p.category \in Range(r.targetPrograms) THEN 10
    ELSE IF p.category \in getRelatedCategories(r.targetPrograms) THEN 7
    ELSE 3

employeeMultiplier(r) ==
    CASE r.employees = "1-9" -> 1
      [] r.employees = "10-49" -> 2
      [] r.employees = "50-99" -> 3
      [] r.employees = "100+" -> 4
      [] OTHER -> 1

revenueMultiplier(r) ==
    CASE r.annualRevenue = "under-1b" -> 1
      [] r.annualRevenue = "1b-10b" -> 2
      [] r.annualRevenue = "10b-50b" -> 3
      [] r.annualRevenue = "over-50b" -> 4
      [] OTHER -> 1

\* getExpectedAmountRange, times 10 (so that min * 0.1 stays an integer)
ExpectedMin10(r) == BaseAmount * employeeMultiplier(r) * revenueMultiplier(r) * 5
ExpectedMax10(r) == BaseAmount * employeeMultiplier(r) * revenueMultiplier(r) * 30

Truthy(n) == n # NullNum /\ n # 0

calculateAmountScore(p, r) ==
    IF ~Truthy(p.amountMin) /\ ~Truthy(p.amountMax) THEN 8
    ELSE LET minIn == Truthy(p.amountMin) /\ p.amountMin * 10 >= ExpectedMin10(r)
                       /\ p.amountMin * 10 <= ExpectedMax10(r)
             maxIn == Truthy(p.amountMax) /\ p.amountMax * 10 >= ExpectedMin10(r)
                       /\ p.amountMax * 10 <= ExpectedMax10(r)
             small == Truthy(p.amountMax) /\ p.amountMax * 100 < ExpectedMin10(r)
             score == 5 + (IF minIn THEN 3 ELSE 0) + (IF maxIn THEN 2 ELSE 0)
                        - (IF small THEN 3 ELSE 0)
         IN Max2(0, Min2(10, score))

Nearby(region) ==
    CASE region = "seoul" -> {<<"gyeong", "gi">>, <<"in", "cheon">>}
      [] region = "gyeonggi" -> {<<"seo", "ul">>, <<"in", "cheon">>}
      [] region = "incheon" -> {<<"seo", "ul">>, <<"gyeong", "gi">>}
      [] OTHER -> {}

isNearbyRegion(userRegion, programRegion) == IncludesAny(programRegion, Nearby(userRegion))

getRegionKeyword(region) == RegionMap(region)

\* a region score that gives a program without region the lowest value
RegionScoreWithoutNationwide(p, r) ==
    IF r.region = "" THEN 8
    ELSE IF p.region # NullText /\ Includes(p.region, RegionMap(r.region)) THEN 10
    ELSE 3

calculateRegionScore(p, r) ==
    IF p.region = NullText \/ p.region = EmptyText THEN 10
    ELSE IF r.region = "" THEN 8
    ELSE IF Includes(p.region, getRegionKeyword(r.region)) THEN 10
    ELSE IF isNearbyRegion(r.region, p.region) THEN 7
    ELSE 3

\* Math.ceil(a / b) for b > 0
CeilDiv(a, b) == 0 - ((0 - a) \div b)

getUrgencyDays(urgency) ==
    CASE urgency = "immediate" -> 30
      [] urgency = "short" -> 90
      [] urgency = "medium" -> 180
      [] urgency = "long" -> 365
      [] OTHER -> 90

DaysLeft(deadline, t) == CeilDiv(deadline - t, DayTicks)

\* a variant that scores a rolling deadline like one that fits the urgency
DeadlineScoreWithRollingAsFit(p, r, t) ==
    IF p.deadline = NullNum THEN 10
    ELSE IF DaysLeft(p.deadline, t) < 0 THEN 0
    ELSE IF DaysLeft(p.deadline, t) <= getUrgencyDays(r.urgency) THEN 10
    ELSE IF DaysLeft(p.deadline, t) <= getUrgencyDays(r.urgency) * 2 THEN 8
    ELSE IF DaysLeft(p.deadline, t) <= getUrgencyDays(r.urgency) * 3 THEN 6
    ELSE 4

calculateDeadlineScore(p, r, t) ==
    IF p.deadline = NullNum THEN 8
    ELSE IF DaysLeft(p.deadline, t) < 0 THEN 0
    ELSE IF DaysLeft(p.deadline, t) <= getUrgencyDays(r.urgency) THEN 10
    ELSE IF DaysLeft(p.deadline, t) <= getUrgencyDays(r.urgency) * 2 THEN 8
    ELSE IF DaysLeft(p.deadline, t) <= getUrgencyDays(r.urgency) * 3 THEN 6
    ELSE 4

calculateCompanySizeScore(p, r) ==
    IF p.target = NullText \/ p.target = EmptyText THEN 8
    ELSE IF r.businessType = "startup" /\ IncludesAny(p.target, {KwChangeop, KwStartup, KwVenture}) THEN 10
    ELSE IF r.businessType = "individual" /\ IncludesAny(p.target, {KwGaein, KwSosanggongin}) THEN 10
    ELSE IF r.employees = "1-9" /\ IncludesAny(p.target, {KwSogieop, KwSosanggongin}) THEN 10
    ELSE IF r.employees = "10-49" /\ IncludesAny(p.target, {KwJungsogieop, KwJungso}) THEN 10
    ELSE IF r.employees = "50-99" /\ IncludesAny(p.target, {KwJunggyeongieop, KwJunggyeon}) THEN 10
    ELSE IF r.employees = "100+" /\ IncludesAny(p.target, {KwDaegieop, KwDae}) THEN 10
    ELSE 5

SubScores(p, r, t) ==
    [category |-> calculateCategoryScore(p, r),
     amount |-> calculateAmountScore(p, r),
     region |-> calculateRegionScore(p, r),
     deadline |-> calculateDeadlineScore(p, r, t),
     companySize |-> calculateCompanySizeScore(p, r)]

\* a weighted sum with the weights of category and amount exchanged
WeightedScoreWithSwappedWeights(s) ==
    s.category * 25 + s.amount * 40 + s.region * 15 + s.deadline * 10 + s.companySize * 10

\* calculateWeightedScore, in thousandths: weights 0.4 / 0.25 / 0.15 / 0.1 / 0.1
calculateWeightedScore(s) ==
    s.category * 40 + s.amount * 25 + s.region * 15 + s.deadline * 10 + s.companySize * 10

\* Math.round(totalScore * 100) / 100.  The weighted sum is computed in IEEE
\* doubles; when the exact sum lies half-way between two hundredths the
\* double lies just below or just above it.  TieRoundsDown lists the
\* sub-score tuples <<category, amount, region, deadline, companySize>> whose
\* double sum lies below the half-way point (evaluated with IEEE doubles in
\* the order of the source expression); every other sum rounds as the exact
\* value does.
TieRoundsDown ==
    {
      <<3, 2, 3, 0, 5>>, <<3, 2, 3, 0, 10>>, <<3, 2, 3, 6, 5>>, <<3, 2, 3, 10, 5>>,
      <<3, 2, 3, 10, 8>>, <<3, 2, 3, 10, 10>>, <<3, 2, 7, 0, 5>>, <<3, 2, 7, 4, 5>>,
      <<3, 2, 7, 4, 8>>, <<3, 2, 7, 4, 10>>, <<3, 2, 7, 6, 5>>, <<3, 2, 7, 6, 10>>,
      <<3, 2, 7, 8, 10>>, <<3, 5, 8, 10, 8>>, <<3, 5, 8, 10, 10>>, <<3, 5, 10, 10, 8>>,
      <<3, 7, 8, 4, 8>>, <<3, 7, 8, 4, 10>>, <<3, 7, 8, 6, 8>>, <<3, 7, 8, 6, 10>>,
      <<3, 7, 8, 8, 8>>, <<3, 7, 10, 0, 5>>, <<3, 7, 10, 0, 8>>, <<3, 7, 10, 0, 10>>,
      <<3, 7, 10, 4, 8>>, <<3, 7, 10, 6, 5>>, <<3, 7, 10, 6, 10>>, <<3, 7, 10, 8, 5>>,
      <<3, 7, 10, 8, 10>>, <<3, 7, 10, 10, 10>>, <<3, 8, 3, 10, 8>>, <<3, 8, 3, 10, 10>>,
      <<3, 8, 7, 4, 8>>, <<3, 8, 7, 4, 10>>, <<3, 8, 7, 6, 8>>, <<3, 10, 3, 4, 8>>,
      <<3, 10, 3, 4, 10>>, <<3, 10, 3, 6, 8>>, <<3, 10, 3, 6, 10>>, <<3, 10, 3, 8, 8>>,
      <<3, 10, 7, 0, 8>>, <<3, 10, 7, 0, 10>>, <<3, 10, 7, 6, 10>>, <<3, 10, 7, 8, 10>>,
      <<5, 2, 3, 4, 5>>, <<5, 2, 3, 4, 10>>, <<5, 2, 3, 6, 10>>, <<5, 2, 7, 0, 10>>,
      <<5, 2, 7, 10, 8>>, <<5, 2, 7, 10, 10>>, <<5, 5, 8, 4, 8>>, <<5, 5, 10, 0, 8>>,
      <<5, 5, 10, 0, 10>>, <<5, 5, 10, 6, 10>>, <<5, 5, 10, 8, 10>>, <<5, 7, 8, 0, 8>>,
      <<5, 7, 8, 6, 10>>, <<5, 8, 3, 4, 8>>, <<5, 8, 7, 6, 10>>, <<5, 10, 3, 0, 8>>,
      <<5, 10, 3, 6, 10>>, <<7, 2, 3, 0, 5>>, <<7, 2, 3, 0, 8>>, <<7, 2, 3, 4, 5>>,
      <<7, 2, 3, 4, 8>>, <<7, 2, 3, 4, 10>>, <<7, 2, 3, 6, 5>>, <<7, 2, 3, 6, 8>>,
      <<7, 2, 3, 6, 10>>, <<7, 2, 3, 8, 8>>, <<7, 2, 3, 8, 10>>, <<7, 2, 3, 10, 8>>,
      <<7, 2, 3, 10, 10>>, <<7, 2, 7, 0, 5>>, <<7, 2, 7, 0, 8>>, <<7, 2, 7, 0, 10>>,
      <<7, 2, 7, 4, 8>>, <<7, 2, 7, 4, 10>>, <<7, 2, 7, 6, 5>>, <<7, 2, 7, 6, 8>>,
      <<7, 2, 7, 8, 5>>, <<7, 2, 7, 8, 10>>, <<7, 2, 7, 10, 10>>, <<7, 5, 8, 0, 5>>,
      <<7, 5, 8, 0, 10>>, <<7, 5, 8, 4, 10>>, <<7, 5, 8, 10, 8>>, <<7, 5, 8, 10, 10>>,
      <<7, 5, 10, 0, 10>>, <<7, 5, 10, 10, 8>>, <<7, 5, 10, 10, 10>>, <<7, 7, 8, 10, 8>>,
      <<7, 7, 8, 10, 10>>, <<7, 7, 10, 10, 8>>, <<7, 8, 7, 10, 8>>, <<7, 8, 7, 10, 10>>,
      <<10, 2, 3, 0, 8>>, <<10, 2, 3, 6, 10>>, <<10, 7, 8, 0, 8>>, <<10, 7, 8, 6, 10>>,
      <<10, 7, 8, 8, 10>>, <<10, 7, 8, 10, 10>>, <<10, 7, 10, 6, 10>>, <<10, 7, 10, 8, 10>>,
      <<10, 10, 7, 6, 10>>
    }

RoundedScore(s) ==
    LET total == calculateWeightedScore(s)
        hundredths == IF total % 10 = 5
                      THEN (IF <<s.category, s.amount, s.region, s.deadline, s.companySize>>
                                 \in TieRoundsDown
                            THEN total \div 10 ELSE total \div 10 + 1)
                      ELSE (total + 5) \div 10
    IN hundredths * (ONE \div 100)

Reason(k, n) == [k |-> k, n |-> n]

RECURSIVE Concat(_)
Concat(ss) == IF ss = <<>> THEN <<>> ELSE Head(ss) \o Concat(Tail(ss))

generateMatchReasons(p, s) ==
    LET rs == Concat(<<
            IF s.category >= 9 THEN <<Reason("category_exact", 0)>>
            ELSE IF s.category >= 7 THEN <<Reason("category_related", 0)>> ELSE <<>>,
            IF s.region >= 9 THEN <<Reason("region", 0)>> ELSE <<>>,
            IF s.companySize >= 9 THEN <<Reason("company_size", 0)>> ELSE <<>>,
            IF s.deadline >= 9 THEN <<Reason("deadline", 0)>> ELSE <<>>,
            IF s.amount >= 8 THEN <<Reason("amount", 0)>> ELSE <<>>,
            IF Truthy(p.supportRate) /\ p.supportRate >= 80
            THEN <<Reason("high_support_rate", p.supportRate)>> ELSE <<>> >>)
    IN IF rs = <<>> THEN <<Reason("baseline", 0)>> ELSE rs

\* the MatchedProgram built for one program
MatchedProgramOf(p, r, t) ==
    [id |-> p.id,
     title |-> p.title,
     description |-> IF p.description = NullText THEN EmptyText ELSE p.description,
     category |-> IF p.category = "" THEN "OTHER" ELSE p.category,
     amountMin |-> p.amountMin,
     amountMax |-> p.amountMax,
     supportRate |-> p.supportRate,
     region |-> p.region,
     deadline |-> p.deadline,
     matchScore |-> RoundedScore(SubScores(p, r, t)),
     matchReasons |-> generateMatchReasons(p, SubScores(p, r, t))]

calculateScores(programs, r, t) ==
    SortByMatchScore([i \in 1..Len(programs) |-> MatchedProgramOf(programs[i], r, t)])

(***************************************************************************)
(* LlmMatchingService: local rule-based enhancement                        *)
(***************************************************************************)
BusinessKeywords ==
    { <<"sol", "lu", "syeon">>, <<"peul", "laet", "pom">>, <<"seo", "bi", "seu">>,
      <<"si", "seu", "tem">>, <<"gi", "sul">>, <<"gae", "bal">>, <<"je", "jo">>,
      <<"saeng", "san">>, <<"pan", "mae">>, <<"yu", "tong">>, <<"ma", "ke", "ting">>,
      <<"keon", "seol", "ting">>, <<"gyo", "yuk">>, <<"ui", "ryo">>, <<"geum", "yung">>,
      <<"mul", "lyu">>, <<"a", "i">>, <<"big", "de", "i", "teo">>, <<"i", "o", "t">>,
      <<"beul", "lok", "che", "in">>, <<"mo", "ba", "il">>, <<"wep">>, <<"aep">>,
      <<"so", "peu", "teu", "we", "eo">> }

SynonymGroups ==
    { { <<"a", "i">>, <<"in", "gong", "ji", "neung">>, <<"meo", "sin", "reo", "ning">> },
      { <<"gae", "bal">>, <<"je", "jak">>, <<"gu", "chuk">>, <<"gu", "hyeon">> },
      { <<"sol", "lu", "syeon">>, <<"si", "seu", "tem">>, <<"peul", "laet", "pom">> },
      { <<"seo", "bi", "seu">>, <<"sa", "eop">>, <<"bi", "jeu", "ni", "seu">> },
      { <<"gi", "sul">>, <<"te", "keu">>, <<"te", "keu", "nol", "lo", "ji">> },
      { <<"hel", "seu", "ke", "eo">>, <<"ui", "ryo">>, <<"geon", "gang">> },
      { <<"geum", "yung">>, <<"f", "i", "n", "t", "e", "c", "h">>, <<"pin", "te", "keu">> } }

InnovationKeywords ==
    { <<"hyeok", "sin">>, <<"sin", "gi", "sul">>, <<"a", "i">>, <<"in", "gong", "ji", "neung">>,
      <<"big", "de", "i", "teo">>, <<"i", "o", "t">>, <<"beul", "lok", "che", "in">>,
      <<"di", "ji", "teol">>, <<"seu", "ma", "teu">>, <<"keul", "la", "u", "deu">>,
      <<"ro", "bot">>, <<"ja", "dong", "hwa">>, <<"cheom", "dan">> }

RECURSIVE KeepBusinessWords(_)
KeepBusinessWords(ws) ==
    IF ws = <<>> THEN <<>>
    ELSE (IF Len(Head(ws)) > 1
             /\ \E k \in BusinessKeywords : Includes(Head(ws), k) \/ Includes(k, Head(ws))
          THEN <<Head(ws)>> ELSE <<>>)
         \o KeepBusinessWords(Tail(ws))

extractBusinessKeywords(text) == KeepBusinessWords(Words(text))

isSemanticMatch(w1, w2) ==
    \/ w1 = w2
    \/ \E g \in SynonymGroups :
          (\E syn \in g : Includes(syn, w1)) /\ (\E syn \in g : Includes(syn, w2))

\* the purpose keywords, one entry per matching (purpose, description) pair
RECURSIVE MatchPairs(_, _)
MatchPairs(pks, dks) ==
    IF pks = <<>> THEN <<>>
    ELSE [i \in 1..Cardinality({j \in DOMAIN dks : isSemanticMatch(Head(pks), dks[j])})
             |-> Head(pks)]
         \o MatchPairs(Tail(pks), dks)

analyzePurposeAlignment(businessPurpose, description) ==
    IF businessPurpose = NullText \/ businessPurpose = EmptyText \/ description = EmptyText
    THEN [score |-> ONE \div 2, keyMatches |-> <<>>]
    ELSE LET pks == extractBusinessKeywords(businessPurpose)
             dks == extractBusinessKeywords(description)
             matches == MatchPairs(pks, dks)
         IN [score |-> Min2(ONE, (Len(matches) * ONE) \div Max2(Len(pks), 1)),
             keyMatches |-> Dedup(matches)]

CompanyAge(r, year) == year - r.establishedYear

analyzeGrowthStageMatch(p, r, year) ==
    IF CompanyAge(r, year) <= 3 /\ p.category = "06" THEN <<Reason("growth_startup", 0)>>
    ELSE IF CompanyAge(r, year) > 3 /\ CompanyAge(r, year) <= 7 /\ p.category = "02"
         THEN <<Reason("growth_tech", 0)>>
    ELSE IF CompanyAge(r, year) > 7 /\ p.category = "04" THEN <<Reason("growth_export", 0)>>
    ELSE <<>>

\* estimateFinancialNeed, in tenths of the amount unit
baseNeed(r) ==
    CASE r.employees = "1-9" -> 500
      [] r.employees = "10-49" -> 2000
      [] r.employees = "50-99" -> 5000
      [] r.employees = "100+" -> 10000
      [] OTHER -> 500

\* businessPurpose.includes(...) on an absent purpose is a TypeError
estimateFinancialNeedThrows(r) == r.businessPurpose = NullText

estimateFinancialNeed10(r) ==
    baseNeed(r) * (IF Includes(r.businessPurpose, KwGaebal) THEN 15 ELSE 10)

analyzeEfficiencyThrows(p, r) ==
    Truthy(p.amountMax) /\ Truthy(p.supportRate) /\ estimateFinancialNeedThrows(r)

analyzeEfficiency(p, r) ==
    IF ~Truthy(p.amountMax) \/ ~Truthy(p.supportRate) THEN <<>>
    ELSE IF p.amountMax * p.supportRate >= estimateFinancialNeed10(r) * 8
         THEN <<Reason("covers_need", 0)>>
    ELSE IF p.supportRate >= 80 THEN <<Reason("low_own_share", p.supportRate)>>
    ELSE <<>>

\* Math.round(score * 100)
Percent(score) == (score * 100 + ONE \div 2) \div ONE

enhanceMatchReasons(p, r, year) ==
    LET pa == analyzePurposeAlignment(r.businessPurpose, p.description)
        purpose == IF pa.score * 10 > ONE * 7
                   THEN <<Reason("purpose_match", Percent(pa.score))>>
                        \o (IF Len(pa.keyMatches) > 0
                            THEN <<Reason("key_matches", Len(pa.keyMatches))>> ELSE <<>>)
                   ELSE <<>>
    IN Prefix(Dedup(p.matchReasons \o purpose \o analyzeGrowthStageMatch(p, r, year)
                    \o analyzeEfficiency(p, r)), MaxReasons)

isOptimalForGrowthStage(p, r) ==
    \/ r.businessType = "startup" /\ p.category = "06"
    \/ r.employees = "1-9" /\ p.category = "02"
    \/ r.employees = "50-99" /\ p.category \in {"04", "07"}

isPerfectUrgencyMatch(p, r, t) ==
    IF p.deadline = NullNum THEN r.urgency = "long"
    ELSE /\ DaysLeft(p.deadline, t) <= getUrgencyDays(r.urgency)
         /\ DaysLeft(p.deadline, t) * 2 >= getUrgencyDays(r.urgency)

hasInnovationKeywords(description) == IncludesAny(description, InnovationKeywords)

Clamp01(x) == Max2(0, Min2(ONE, x))

\* the sum with a growth-stage bonus of 0.2 instead of 0.1
AdjustedScoreWithDoubleBonus(p, r, t) ==
    p.matchScore
    + (analyzePurposeAlignment(r.businessPurpose, p.description).score - ONE \div 2) \div 5
    + (IF isOptimalForGrowthStage(p, r) THEN ONE \div 5 ELSE 0)
    + (IF isPerfectUrgencyMatch(p, r, t) THEN ONE \div 20 ELSE 0)
    + (IF hasInnovationKeywords(p.description) THEN ONE \div 20 ELSE 0)

\* the sum before Math.max(0, Math.min(1, .))
UnclampedAdjustedScore(p, r, t) ==
    p.matchScore
    + (analyzePurposeAlignment(r.businessPurpose, p.description).score - ONE \div 2) \div 5
    + (IF isOptimalForGrowthStage(p, r) THEN ONE \div 10 ELSE 0)
    + (IF isPerfectUrgencyMatch(p, r, t) THEN ONE \div 20 ELSE 0)
    + (IF hasInnovationKeywords(p.description) THEN ONE \div 20 ELSE 0)

adjustScoreWithLlmLogic(p, r, t) == Clamp01(UnclampedAdjustedScore(p, r, t))

applyRuleBasedLogicThrows(p, r) == analyzeEfficiencyThrows(p, r)

applyRuleBasedLogic(p, r, t, year) ==
    [p EXCEPT !.matchScore = adjustScoreWithLlmLogic(p, r, t),
              !.matchReasons = enhanceMatchReasons(p, r, year)]

\* true when mapping applyRuleBasedLogic over the programs raises
RuleBasedThrows(programs, r) ==
    \E i \in DOMAIN programs : applyRuleBasedLogicThrows(programs[i], r)

\* sort by matchScore descending, keep the first 10
FinalSelection(enhanced) == Prefix(SortByMatchScore(enhanced), FinalTopN)

fallbackToRuleBasedLogic(programs, r, t, year) ==
    FinalSelection([i \in 1..Len(programs) |-> applyRuleBasedLogic(programs[i], r, t, year)])

(***************************************************************************)
(* OpenAIService: normalisation of the reasoning service's answers         *)
(***************************************************************************)
Missing == 0 - 888888

\* a service score passed on as reported
UnclampedServiceScore(x) == x

\* Math.max(0, Math.min(1, x)); NaN stays NaN
ClampScore(x) == IF x = NaNScore THEN NaNScore ELSE Clamp01(x)

\* x || d : the default replaces a missing value and also 0
OrDefault(x, d) == IF x = Missing \/ x = 0 \/ x = NaNScore THEN d ELSE x

DefaultParseFailReasons == <<Reason("parse_failed_item", 0)>>

\* parseAssistantResponse, one array item
NormalizeAssistantItem(item) ==
    [matchScore |-> ClampScore(OrDefault(item.matchScore, ONE \div 2)),
     matchReasons |-> IF item.reasonsIsArray THEN item.matchReasons ELSE DefaultParseFailReasons,
     confidence |-> ClampScore(OrDefault(item.confidence, (ONE * 7) \div 10))]

\* parseAssistantResponse: the message text holds a JSON array ("json"), no
\* bracketed part ("no_json"), or a bracketed part that is no JSON or whose
\* items cannot be read ("bad_json")
parseAssistantResponse(msg) ==
    CASE msg.kind = "json" -> [i \in 1..Len(msg.items) |-> NormalizeAssistantItem(msg.items[i])]
      [] msg.kind = "no_json" ->
            <<[matchScore |-> (ONE * 7) \div 10,
               matchReasons |-> <<Reason("assistant_default", 0)>>,
               confidence |-> (ONE * 6) \div 10]>>
      [] OTHER ->
            <<[matchScore |-> ONE \div 2,
               matchReasons |-> <<Reason("assistant_parse_failed", 0)>>,
               confidence |-> (ONE * 3) \div 10]>>

\* analyzeMatching: the result built from the function-call arguments;
\* Math.min(1, undefined) is NaN
NormalizeFunctionCall(res) ==
    [matchScore |-> IF res.matchScore = Missing THEN NaNScore ELSE ClampScore(res.matchScore),
     matchReasons |-> IF res.reasonsIsArray THEN res.matchReasons ELSE <<>>,
     confidence |-> ClampScore(OrDefault(res.confidence, (ONE * 8) \div 10))]

BatchFallbackAnalysis ==
    [matchScore |-> ONE \div 2,
     matchReasons |-> <<Reason("ai_failed_default", 0)>>,
     confidence |-> (ONE * 3) \div 10]

\* analyzeBatchMatching: outcomes[i] is the outcome of the call for programs[i]
\* (kind "fail", or kind "ok" with the parsed arguments); a batch with a
\* failed call yields the default for each of its programs
BatchOf(i) == (i - 1) \div BatchSize

analyzeBatchMatching(outcomes) ==
    [i \in 1..Len(outcomes) |->
        IF \E j \in DOMAIN outcomes : BatchOf(j) = BatchOf(i) /\ outcomes[j].kind = "fail"
        THEN BatchFallbackAnalysis
        ELSE NormalizeFunctionCall(outcomes[i])]

\* analysis && analysis.confidence > 0.5
Accepted(analysis) == analysis.confidence # NaNScore /\ analysis.confidence > ConfidenceThreshold

UsesAnalysis(p, analysis) ==
    [p EXCEPT !.matchScore = analysis.matchScore, !.matchReasons = analysis.matchReasons]

\* the candidates the Assistant tier keeps: programs.slice(0, min(n, m))
AssistantSlice(programs, analyses) == Prefix(programs, Min2(Len(programs), Len(analyses)))

\* one mapped element of either tier
Enhance(p, analysis, r, t, year) ==
    IF Accepted(analysis) THEN UsesAnalysis(p, analysis) ELSE applyRuleBasedLogic(p, r, t, year)

EnhanceThrows(p, analysis, r) == ~Accepted(analysis) /\ applyRuleBasedLogicThrows(p, r)

(***************************************************************************)
(* Inputs: programs of the repository, requester profiles, service answers *)
(***************************************************************************)
CurrentYear == 2025

Days(n) == n * DayTicks

\* the clock value at which the model starts, and a date d days from it
StartTime == Days(2)
At(d) == StartTime + Days(d)

\* the times at which a request may arrive: the start, and half a day after
\* the deadline of the rows that close 20 days from the start
QueryTimes == {StartTime, At(20) + DayTicks \div 2}

Program(id, title, description, category, target, region, deadline, amountMin, amountMax, supportRate, tags) ==
    [id |-> id, title |-> title, description |-> description, category |-> category,
     target |-> target, region |-> region, deadline |-> deadline, amountMin |-> amountMin,
     amountMax |-> amountMax, supportRate |-> supportRate, tags |-> tags,
     embeddingScore |-> NullNum]

TxtAiDev == <<"a", "i", " ", "gae", "bal">>
TxtAiSolution == <<"a", "i", " ", "sol", "lu", "syeon", " ", "gae", "bal">>
TxtStartupFund == <<"chang", "eop", " ", "ja", "geum">>
TxtSmeTech == <<"jung", "so", "gi", "eop", " ", "gi", "sul", " ", "gae", "bal">>
TxtExport == <<"su", "chul", " ", "ma", "ke", "ting">>
TxtSmart == <<"seu", "ma", "teu", " ", "gong", "jang">>
TxtMedical == <<"ui", "ryo", " ", "seo", "bi", "seu", " ", "peul", "laet", "pom">>
TgtYouthFounder == <<"cheong", "nyeon", "chang", "eop", "ja">>
TgtSme == <<"jung", "so", "gi", "eop">>
TgtSmallShop == <<"so", "sang", "gong", "in">>
TgtFarmer == <<"nong", "eop", "in">>
TgtAll == <<"jeon", "che">>
TgtFarmerOrSmallShop == TgtFarmer \o <<" ">> \o TgtSmallShop
RgnSeoul == <<"seo", "ul", "teuk", "byeol", "si">>
RgnGyeonggi == <<"gyeong", "gi", "do">>
RgnBusan == <<"bu", "san">>

\* the kinds of program rows; row i of a table is kind ((i - 1) % 7) + 1
Kind(k, id) ==
    CASE k = 1 -> Program(id, TxtAiDev, TxtAiSolution, "02", NullText, NullText,
                          At(20), 100, 500, 80, <<KwChangeop>>)
      [] k = 2 -> Program(id, TxtStartupFund, TxtStartupFund, "06", TgtYouthFounder, RgnSeoul,
                          NullNum, NullNum, NullNum, NullNum, <<>>)
      [] k = 3 -> Program(id, TxtSmeTech, TxtSmeTech, "02", TgtSme, RgnGyeonggi,
                          At(100), 500, 2000, 75, <<TxtAiDev>>)
      [] k = 4 -> Program(id, TxtExport, TxtExport, "04", NullText, NullText,
                          At(200), NullNum, 30, 90, <<>>)
      [] k = 5 -> Program(id, TxtSmart, NullText, "02", TgtSmallShop, RgnBusan,
                          At(40), 60, NullNum, NullNum, <<>>)
      [] k = 6 -> Program(id, TxtMedical, TxtMedical, "06", TgtFarmerOrSmallShop, NullText,
                          At(300), 8000, 50000, 50, <<>>)
      [] OTHER -> Program(id, TxtSmart, TxtSmart, "09", TgtAll, RgnSeoul,
                          At(0 - 1), 100, 300, 100, <<>>)

Table(n) == [i \in 1..n |-> Kind(((i - 1) % 7) + 1, i)]

\* the table sizes considered
TableSizes == {0, 1, 3, 8, MaxPrograms}

Tables == {Table(n) : n \in TableSizes}

Request(businessType, businessPurpose, establishedYear, employees, annualRevenue, region, targetPrograms, urgency, voucherInterest) ==
    [businessType |-> businessType, businessPurpose |-> businessPurpose,
     establishedYear |-> establishedYear, employees |-> employees,
     annualRevenue |-> annualRevenue, region |-> region,
     targetPrograms |-> targetPrograms, urgency |-> urgency,
     voucherInterest |-> voucherInterest]

AllCategories == <<"02", "06", "04", "09">>

\* validated requests of the pipeline runs; voucherInterest is "absent" or
\* "given", businessPurpose may be NullText (absent)
RequestsWith(v) ==
    { Request("startup", TxtAiSolution, 2024, "1-9", "under-1b", "seoul", <<"02", "06">>, "short", v),
      Request("startup", TxtAiSolution, 2023, "1-9", "under-1b", "seoul", <<"02">>, "immediate", v),
      Request("corporation", NullText, 2010, "100+", "over-50b", "other", AllCategories, "long", v),
      Request("corporation", TxtAiDev, 2020, "100+", "1b-10b", "other", AllCategories, "long", v),
      Request("individual", EmptyText, 2018, "10-49", "1b-10b", "busan", <<"06", "02">>, "immediate", v),
      Request("social", TxtMedical, 2021, "50-99", "10b-50b", "gyeonggi", <<"04", "07">>, "medium", v) }

Requests ==
    RequestsWith("given")
    \cup {r \in RequestsWith("absent") : r.businessType = "startup" /\ r.urgency = "short"}

SvcReasons(n) == [i \in 1..n |-> Reason("service", i)]

RawItem(score, conf, isArray, n) ==
    [matchScore |-> score, confidence |-> conf, reasonsIsArray |-> isArray,
     matchReasons |-> SvcReasons(n)]

\* items the Assistant may put into its JSON array
RawItems ==
    { RawItem((ONE * 95) \div 100, (ONE * 9) \div 10, TRUE, 3),
      RawItem((ONE * 17) \div 10, (ONE * 51) \div 100, TRUE, 6),
      RawItem(0 - (ONE * 3) \div 10, 0, TRUE, 4),
      RawItem((ONE * 2) \div 10, Missing, TRUE, 3),
      RawItem(Missing, ONE \div 2, FALSE, 0) }

\* outcomes of one analyzeMatching call
CallOutcome(kind, score, conf, isArray, n) ==
    [kind |-> kind, matchScore |-> score, confidence |-> conf, reasonsIsArray |-> isArray,
     matchReasons |-> SvcReasons(n)]

CallOutcomes ==
    { CallOutcome("fail", Missing, Missing, FALSE, 0),
      CallOutcome("ok", (ONE * 9) \div 10, (ONE * 9) \div 10, TRUE, 3),
      CallOutcome("ok", (ONE * 4) \div 10, ONE \div 2, TRUE, 3),
      CallOutcome("ok", (ONE * 17) \div 10, Missing, TRUE, 4),
      CallOutcome("ok", Missing, (ONE * 8) \div 10, FALSE, 0) }

\* a list of length n that repeats the script
Scripted(script, n) == [i \in 1..n |-> script[((i - 1) % Len(script)) + 1]]

RECURSIVE SeqsUpTo(_, _)
SeqsUpTo(S, n) ==
    IF n = 0 THEN {<<>>}
    ELSE LET shorter == SeqsUpTo(S, n - 1)
         IN shorter \cup {Append(s, x) : s \in {q \in shorter : Len(q) = n - 1}, x \in S}

Scripts(S, period) == {s \in SeqsUpTo(S, period) : Len(s) = period}

\* the numbers of items the Assistant's array may hold
AnswerCounts == {0, 1, 2, 5, MaxAnswers}

AssistantMessages ==
    {[kind |-> "no_json", items |-> <<>>], [kind |-> "bad_json", items |-> <<>>]}
    \cup {[kind |-> "json", items |-> Scripted(s, m)] :
            s \in Scripts(RawItems, ScriptPeriod), m \in AnswerCounts}

(***************************************************************************)
(* State                                                                   *)
(***************************************************************************)
VARIABLES
    supportProgram,        \* the rows of the support-program table
    requestData,           \* the validated request being served
    now,                   \* the clock, in ticks
    pc,                    \* where the request is
    currentVectorStoreId,  \* OpenAIService handle (0 = null, otherwise an id)
    currentAssistantId,    \* OpenAIService handle (0 = null, otherwise an id)
    hardFilteredPrograms,
    embeddingFilteredPrograms,
    scoredPrograms,
    llmInput,              \* the list handed to analyzeFinalMatches
    analyses,              \* the normalised judgments the tier in use mapped over
    rawAnswers,            \* what the service reported for them (before normalisation)
    enhancedPrograms,      \* the mapped list of the tier that produced the result
    finalMatches,          \* what analyzeFinalMatches returned
    tiers,                 \* the tiers attempted, in order
    stages,                \* the pipeline stages invoked
    reasonerOutcome,       \* "none", "returned" or "raised"
    raisedIn,              \* where an exception arose: "none", "controller", "HardFilter", "Reasoner"
    response,              \* what createMatching gave its caller
    callStatus,            \* analyzeBatchMatching: per program, the state of its analyzeMatching call
    batchOffset,           \* analyzeBatchMatching: the loop variable i
    batchPc,               \* analyzeBatchMatching: "idle", "issue", "await", "delay" or "done"
    batchResults,          \* analyzeBatchMatching: results, "analysis" or "default" per program
    delaysDone,            \* the batch offsets after which delay(100) has elapsed
    apiData,               \* SupportProgramSyncService: the records the last sync fetched
    polling,               \* OpenAIService: the status-polling loop in progress, if any
    initializers,          \* ProgramSchedulerService: per caller, where its (re)initialisation is
    attached,              \* the reasoning service: per assistant id, the vector store attached
    isRunning,             \* SyncSchedulerService.isRunning
    syncs                  \* SyncSchedulerService: per entry point, its syncs in progress
                           \* and how its last call ended

vars == <<supportProgram, requestData, now, pc, currentVectorStoreId, currentAssistantId,
          hardFilteredPrograms, embeddingFilteredPrograms, scoredPrograms,
          llmInput, analyses, rawAnswers, enhancedPrograms, finalMatches, tiers, stages,
          reasonerOutcome, raisedIn, response,
          callStatus, batchOffset, batchPc, batchResults, delaysDone,
          apiData, polling, initializers, attached, isRunning, syncs>>

batchVars == <<callStatus, batchOffset, batchPc, batchResults, delaysDone>>
pipelineVars == <<hardFilteredPrograms, embeddingFilteredPrograms, scoredPrograms, llmInput>>
reasonerVars == <<analyses, rawAnswers, enhancedPrograms, finalMatches, tiers, reasonerOutcome>>
serviceVars == <<currentVectorStoreId, currentAssistantId, batchVars>>
\* the variables of the services around the matching pipeline
auxVars == <<apiData, polling, initializers, attached, isRunning, syncs>>

NotPolling == [kind |-> "none", at |-> "idle", status |-> "none", elapsed |-> 0]

\* the callers of uploadAndCreateVectorStore: initializeProgramData at startup,
\* the daily cron job updateProgramDataDaily, and triggerManualUpdate
Initializers == {"startup", "cron", "manual"}

CallerIndex(p) == IF p = "startup" THEN 1 ELSE IF p = "cron" THEN 2 ELSE 3

\* initializeProgramData runs updateProgramDataDaily once more when its first
\* attempt raised
MaxAttempts == 2

\* the id the service gives to what attempt n of caller p creates (ids are
\* unique; 0 stands for null)
CreatedId(p, n) == MaxAttempts * (CallerIndex(p) - 1) + n

CreatedIds == {CreatedId(p, n) : p \in Initializers, n \in 1..MaxAttempts}

\* the entry points of SyncSchedulerService that start a sync
SyncEntryPoints == {"handleDailySync", "executeDailySync", "triggerManualSync",
                    "triggerCategorySync"}

NoSync == [inProgress |-> 0, last |-> "none"]

NotStarted == [at |-> "idle", attempt |-> 0, attemptsLeft |-> 0, store |-> 0, target |-> 0,
               assistant |-> 0]

\* none of the services around the matching pipeline has run
Quiescent ==
    /\ apiData = <<>>
    /\ polling = NotPolling
    /\ initializers = [p \in Initializers |-> NotStarted]
    /\ attached = [a \in CreatedIds |-> 0]
    /\ isRunning = FALSE
    /\ syncs = [e \in SyncEntryPoints |-> NoSync]

inputVars == <<supportProgram, requestData, now, auxVars>>

\* no answer of the reasoning service is in use
NoAnswers == [kind |-> "none", items |-> <<>>]

\* the summary of createEmptyResult: bestMatch null (an empty list here, a
\* one-element list when set), no categories, average 0
EmptySummary == [bestMatch |-> <<>>, categoryDistribution |-> <<>>, averageMatchScore |-> 0]

NoResponse ==
    [status |-> "pending", success |-> FALSE, message |-> "", totalCandidates |-> 0,
     filteredCount |-> 0, finalMatches |-> <<>>, summary |-> EmptySummary,
     recommendations |-> <<>>]

\* an empty result without the fixed recommendations
EmptyResultWithoutAdvice ==
    [status |-> "returned", success |-> TRUE, message |-> "completed", totalCandidates |-> 0,
     filteredCount |-> 0, finalMatches |-> <<>>, summary |-> EmptySummary,
     recommendations |-> <<>>]

\* createEmptyResult wrapped by the controller's success branch
EmptyResultResponse ==
    [status |-> "returned", success |-> TRUE, message |-> "completed", totalCandidates |-> 0,
     filteredCount |-> 0, finalMatches |-> <<>>, summary |-> EmptySummary,
     recommendations |-> <<"no_matching_programs", "adjust_conditions", "wait_for_new_programs">>]

\* the controller's catch branch
ErrorResponse ==
    [status |-> "returned", success |-> FALSE, message |-> "error", totalCandidates |-> 0,
     filteredCount |-> 0, finalMatches |-> <<>>, summary |-> EmptySummary,
     recommendations |-> <<"system_error">>]

\* an exception that left createMatching
RaisedResponse == [NoResponse EXCEPT !.status = "raised"]

generateRecommendations(matches, t) ==
    IF matches = <<>> THEN <<"no_matching_programs">>
    ELSE <<"best_match">>
         \o (IF Len(matches) > 3 THEN <<"total_count">> ELSE <<>>)
         \o (IF \E i \in DOMAIN matches :
                    matches[i].deadline # NullNum /\ matches[i].deadline - t < Days(30)
             THEN <<"closing_within_month">> ELSE <<>>)

\* reduce((sum, p) => sum + (p.matchScore || 0), 0)
RECURSIVE SumOfScores(_)
SumOfScores(programs) ==
    IF programs = <<>> THEN 0
    ELSE (IF Head(programs).matchScore = NaNScore THEN 0 ELSE Head(programs).matchScore)
         + SumOfScores(Tail(programs))

\* the mean is half-way between two hundredths
AverageIsTie(programs) ==
    programs # <<>>
    /\ 2 * ((SumOfScores(programs) * 100) % (Len(programs) * ONE)) = Len(programs) * ONE

\* calculateAverageScore: Math.round((total / length) * 100) / 100.  When the
\* exact mean lies half-way between two hundredths the double quotient lies
\* on one side or the other of it, depending on the summands: tieRoundsUp
\* says on which.
calculateAverageScore(programs, tieRoundsUp) ==
    IF programs = <<>> THEN 0
    ELSE LET num == SumOfScores(programs) * 100
             den == Len(programs) * ONE
             up == 2 * (num % den) > den \/ (2 * (num % den) = den /\ tieRoundsUp)
         IN  (num \div den + (IF up THEN 1 ELSE 0)) * (ONE \div 100)

\* categoryDistribution[match.category] = (... || 0) + 1 over the matches
categoryDistributionOf(matches) ==
    [c \in {matches[i].category : i \in DOMAIN matches} |->
        Cardinality({i \in DOMAIN matches : matches[i].category = c})]

\* buildMatchingResult wrapped by the controller's success branch
buildMatchingResult(totalCandidates, filteredCount, matches, t, tieRoundsUp) ==
    [status |-> "returned", success |-> TRUE, message |-> "completed",
     totalCandidates |-> totalCandidates, filteredCount |-> filteredCount,
     finalMatches |-> matches,
     summary |-> [bestMatch |-> IF matches = <<>> THEN <<>> ELSE <<matches[1]>>,
                  categoryDistribution |-> categoryDistributionOf(matches),
                  averageMatchScore |-> calculateAverageScore(matches, tieRoundsUp)],
     recommendations |-> generateRecommendations(matches, t)]

Init ==
    /\ supportProgram \in Tables
    /\ requestData \in Requests
    /\ now \in QueryTimes
    /\ pc = "received"
    /\ currentVectorStoreId = 0
    /\ currentAssistantId = 0
    /\ hardFilteredPrograms = <<>>
    /\ embeddingFilteredPrograms = <<>>
    /\ scoredPrograms = <<>>
    /\ llmInput = <<>>
    /\ analyses = <<>>
    /\ rawAnswers = NoAnswers
    /\ enhancedPrograms = <<>>
    /\ finalMatches = <<>>
    /\ tiers = <<>>
    /\ stages = {}
    /\ reasonerOutcome = "none"
    /\ raisedIn = "none"
    /\ response = NoResponse
    /\ callStatus = <<>>
    /\ batchOffset = 0
    /\ batchPc = "idle"
    /\ batchResults = <<>>
    /\ delaysDone = {}
    /\ Quiescent

(***************************************************************************)
(* OpenAIService.uploadAndCreateVectorStore (initialisation of the handles)*)
(***************************************************************************)
UploadAndCreateVectorStore ==
    /\ \E ok \in BOOLEAN :
          IF ok
          THEN /\ currentVectorStoreId' = 1
               /\ currentAssistantId' = 1
          ELSE UNCHANGED <<currentVectorStoreId, currentAssistantId>>
    /\ UNCHANGED <<inputVars, pc, pipelineVars, reasonerVars, stages, raisedIn, response,
                   batchVars>>

(***************************************************************************)
(* MatchingController.createMatching, up to the call of matchPrograms      *)
(***************************************************************************)
CreateMatching ==
    /\ pc = "received"
    /\ IF requestData.voucherInterest = "absent"
       THEN \* matchingData.voucherInterest.join(...) outside the try block
            /\ pc' = "done"
            /\ raisedIn' = "controller"
            /\ response' = RaisedResponse
       ELSE /\ pc' = "hardFilter"
            /\ UNCHANGED <<raisedIn, response>>
    /\ UNCHANGED <<inputVars, serviceVars, pipelineVars, reasonerVars, stages>>

(***************************************************************************)
(* MatchingService.matchPrograms, stage by stage                           *)
(***************************************************************************)
\* stage 1; the repository query may fail
ApplyHardFilters ==
    /\ pc = "hardFilter"
    /\ stages' = stages \cup {"HardFilter"}
    /\ \E queryFails \in BOOLEAN :
          IF queryFails
          THEN /\ pc' = "done"
               /\ raisedIn' = "HardFilter"
               /\ response' = ErrorResponse
               /\ UNCHANGED hardFilteredPrograms
          ELSE /\ hardFilteredPrograms' = applyHardFilters(supportProgram, requestData, now)
               /\ UNCHANGED raisedIn
               /\ IF hardFilteredPrograms' = <<>>
                  THEN /\ pc' = "done"
                       /\ response' = EmptyResultResponse
                  ELSE /\ pc' = "embedding"
                       /\ UNCHANGED response
    /\ UNCHANGED <<inputVars, serviceVars, embeddingFilteredPrograms, scoredPrograms,
                   llmInput, reasonerVars>>

\* stage 2
ApplyEmbeddingFilters ==
    /\ pc = "embedding"
    /\ stages' = stages \cup {"RelevanceFilter"}
    /\ embeddingFilteredPrograms' =
          applyEmbeddingFilters(hardFilteredPrograms, requestData.businessPurpose)
    /\ pc' = "scoring"
    /\ UNCHANGED <<inputVars, serviceVars, hardFilteredPrograms, scoredPrograms, llmInput,
                   reasonerVars, raisedIn, response>>

\* stage 3, and the slice handed to stage 4
CalculateScores ==
    /\ pc = "scoring"
    /\ stages' = stages \cup {"WeightedScorer"}
    /\ scoredPrograms' = calculateScores(embeddingFilteredPrograms, requestData, now)
    /\ llmInput' = Prefix(scoredPrograms', LlmTopN)
    /\ pc' = "tier1"
    /\ UNCHANGED <<inputVars, serviceVars, hardFilteredPrograms, embeddingFilteredPrograms,
                   reasonerVars, raisedIn, response>>

(***************************************************************************)
(* LlmMatchingService.analyzeFinalMatches                                  *)
(***************************************************************************)
\* the Assistant tier once searchAndAnalyzeWithAssistant has returned msg
AssistantReturns(msg) ==
    LET parsed == parseAssistantResponse(msg)
        kept == AssistantSlice(llmInput, parsed)
    IN IF Len(parsed) > 0
       THEN /\ analyses' = parsed
            /\ rawAnswers' = msg
            /\ IF \E i \in DOMAIN kept : EnhanceThrows(kept[i], parsed[i], requestData)
               THEN /\ pc' = "tier3"
                    /\ UNCHANGED <<enhancedPrograms, finalMatches, reasonerOutcome>>
               ELSE /\ enhancedPrograms' =
                          [i \in DOMAIN kept |->
                              Enhance(kept[i], parsed[i], requestData, now, CurrentYear)]
                    /\ finalMatches' = FinalSelection(enhancedPrograms')
                    /\ reasonerOutcome' = "returned"
                    /\ pc' = "build"
       ELSE /\ pc' = "tier2"
            /\ UNCHANGED <<analyses, rawAnswers, enhancedPrograms, finalMatches, reasonerOutcome>>

\* the try block of analyzeFinalMatches up to the return of the Assistant
\* tier.  searchAndAnalyzeWithAssistant raises when a handle is not set; with
\* both set it raises (an API error, a failed run, the run wait timing out,
\* no assistant message) or returns the parsed message
AssistantTier ==
    /\ pc = "tier1"
    /\ stages' = stages \cup {"Reasoner"}
    /\ tiers' = Append(tiers, "tier1")
    /\ IF currentAssistantId = 0 \/ currentVectorStoreId = 0
       THEN /\ pc' = "tier3"
            /\ UNCHANGED <<analyses, rawAnswers, enhancedPrograms, finalMatches, reasonerOutcome>>
       ELSE \E raises \in BOOLEAN :
               IF raises
               THEN /\ pc' = "tier3"
                    /\ UNCHANGED <<analyses, rawAnswers, enhancedPrograms, finalMatches,
                                   reasonerOutcome>>
               ELSE \E msg \in AssistantMessages : AssistantReturns(msg)
    /\ UNCHANGED <<inputVars, serviceVars, pipelineVars, raisedIn, response>>

\* fallbackToBatchAnalysis
BatchTier ==
    /\ pc = "tier2"
    /\ tiers' = Append(tiers, "tier2")
    /\ \E script \in Scripts(CallOutcomes, BatchScriptPeriod) :
          LET outcomes == Scripted(script, Len(llmInput))
              results == analyzeBatchMatching(outcomes)
          IN /\ analyses' = results
             /\ rawAnswers' = [kind |-> "calls", items |-> outcomes]
             /\ IF \E i \in DOMAIN llmInput : EnhanceThrows(llmInput[i], results[i], requestData)
                THEN /\ pc' = "tier3b"
                     /\ UNCHANGED <<enhancedPrograms, finalMatches, reasonerOutcome>>
                ELSE /\ enhancedPrograms' =
                           [i \in DOMAIN llmInput |->
                               Enhance(llmInput[i], results[i], requestData, now, CurrentYear)]
                     /\ finalMatches' = FinalSelection(enhancedPrograms')
                     /\ reasonerOutcome' = "returned"
                     /\ pc' = "build"
    /\ UNCHANGED <<inputVars, serviceVars, pipelineVars, stages, raisedIn, response>>

\* fallbackToRuleBasedLogic, called from the catch block of
\* fallbackToBatchAnalysis (pc = "tier3b") or from the catch block of
\* analyzeFinalMatches (pc = "tier3").  What it raises in the former is caught
\* by the latter; what it raises in the latter leaves analyzeFinalMatches and
\* matchPrograms and reaches the controller's catch
RuleBasedTier ==
    /\ pc \in {"tier3b", "tier3"}
    /\ tiers' = Append(tiers, "tier3")
    /\ IF RuleBasedThrows(llmInput, requestData)
       THEN /\ IF pc = "tier3b"
               THEN /\ pc' = "tier3"
                    /\ UNCHANGED <<reasonerOutcome, raisedIn, response>>
               ELSE /\ reasonerOutcome' = "raised"
                    /\ raisedIn' = "Reasoner"
                    /\ response' = ErrorResponse
                    /\ pc' = "done"
            /\ UNCHANGED <<analyses, rawAnswers, enhancedPrograms, finalMatches>>
       ELSE /\ enhancedPrograms' =
                  [i \in DOMAIN llmInput |->
                      applyRuleBasedLogic(llmInput[i], requestData, now, CurrentYear)]
            /\ finalMatches' = FinalSelection(enhancedPrograms')
            /\ analyses' = <<>>
            /\ rawAnswers' = NoAnswers
            /\ reasonerOutcome' = "returned"
            /\ pc' = "build"
            /\ UNCHANGED <<raisedIn, response>>
    /\ UNCHANGED <<inputVars, serviceVars, pipelineVars, stages>>

\* buildMatchingResult and the controller's success branch
BuildMatchingResult ==
    /\ pc = "build"
    /\ \E tieRoundsUp \in (IF AverageIsTie(finalMatches) THEN BOOLEAN ELSE {TRUE}) :
          response' = buildMatchingResult(Len(hardFilteredPrograms),
                                          Len(embeddingFilteredPrograms),
                                          finalMatches, now, tieRoundsUp)
    /\ pc' = "done"
    /\ UNCHANGED <<inputVars, serviceVars, pipelineVars, reasonerVars, stages, raisedIn>>

Next ==
    \/ UploadAndCreateVectorStore
    \/ CreateMatching
    \/ ApplyHardFilters
    \/ ApplyEmbeddingFilters
    \/ CalculateScores
    \/ AssistantTier
    \/ BatchTier
    \/ RuleBasedTier
    \/ BuildMatchingResult

Spec == Init /\ [][Next]_vars

(***************************************************************************)
(* Properties                                                              *)
(***************************************************************************)
\* the caller received a successful result
Completed == response.status = "returned" /\ response.success

\* a >= b on IEEE doubles: false when either side is NaN
ScoreGeq(a, b) == a # NaNScore /\ b # NaNScore /\ a >= b

NonIncreasing(matches) ==
    \A i, j \in DOMAIN matches : i < j => ScoreGeq(matches[i].matchScore, matches[j].matchScore)

InUnitInterval(score) == score # NaNScore /\ 0 <= score /\ score <= ONE

RuleBasedOf(p) == applyRuleBasedLogic(p, requestData, now, CurrentYear)

\* C1: for every completed request the final matches are at most 10 and are
\* ordered by non-increasing match score, whichever tier produced the ranking.
C1_FinalMatchesRanked ==
    Completed =>
        /\ Len(response.finalMatches) <= FinalTopN
        /\ NonIncreasing(response.finalMatches)

\* C2: the Reasoner never raises, for any candidate list and any valid
\* profile (the purpose text may be absent), whatever the service does; for
\* a non-empty input its output is non-empty.
C2_ReasonerNeverRaises ==
    /\ reasonerOutcome # "raised"
    /\ (reasonerOutcome = "returned" /\ llmInput # <<>>) => finalMatches # <<>>

\* C3: for every validated request (voucherInterest may be omitted) no
\* exception reaches the caller of createMatching: when something was raised
\* the caller gets success = false, no final matches and the generic message.
C3_NoExceptionReachesCaller ==
    /\ response.status # "raised"
    /\ (pc = "done" /\ raisedIn # "none") =>
          /\ response.status = "returned"
          /\ ~response.success
          /\ response.finalMatches = <<>>
          /\ response.message = "error"

\* C4: when Tier 1 raises or returns an empty list the Reasoner attempts
\* Tier 2 next; Tier 3 is attempted only after Tier 2 has been attempted.
C4_TierTwoBeforeTierThree ==
    /\ pc \in {"tier3b", "tier3"} => \E j \in DOMAIN tiers : tiers[j] = "tier2"
    /\ \A i \in DOMAIN tiers :
          tiers[i] = "tier3" => \E j \in DOMAIN tiers : j < i /\ tiers[j] = "tier2"

\* the confidence the service reported for candidate i (Missing when it
\* reported none)
ReportedConfidence(i) == rawAnswers.items[i].confidence

HasReport(i) ==
    /\ rawAnswers.kind \in {"json", "calls"}
    /\ i \in DOMAIN rawAnswers.items
    /\ rawAnswers.kind = "calls" => rawAnswers.items[i].kind = "ok"

ReportedLow(i) == ReportedConfidence(i) = Missing \/ ReportedConfidence(i) <= ConfidenceThreshold

\* C5: a service judgment replaces a candidate's score and reasons only if
\* its reported confidence is strictly above 0.5; for a reported confidence
\* of at most 0.5 (0 and a missing one included) the candidate gets the
\* rule-based enhancement.
C5_LowConfidenceIsRuleBased ==
    reasonerOutcome = "returned" =>
        \A i \in DOMAIN enhancedPrograms :
            (HasReport(i) /\ ReportedLow(i)) => enhancedPrograms[i] = RuleBasedOf(llmInput[i])

\* C6: in every tier the final selection is made over all n input
\* candidates, for any number m >= 1 of judgments: the output has exactly
\* min(n, 10) items, each an input candidate, the top ones by adjusted score.
C6_SelectionOverAllCandidates ==
    reasonerOutcome = "returned" =>
        /\ Len(enhancedPrograms) = Len(llmInput)
        /\ Len(finalMatches) = Min2(Len(llmInput), FinalTopN)
        /\ \A i \in DOMAIN finalMatches : \E j \in DOMAIN llmInput : finalMatches[i].id = llmInput[j].id
        /\ finalMatches = FinalSelection(enhancedPrograms)

\* Tier 1 failed and no Tier-2 call succeeded
ServiceUnavailable ==
    \/ tiers = <<"tier1", "tier3">> /\ rawAnswers.kind = "none"
    \/ /\ Len(tiers) >= 2
       /\ tiers[2] = "tier2"
       /\ rawAnswers.kind = "calls"
       /\ \A i \in DOMAIN rawAnswers.items : rawAnswers.items[i].kind = "fail"

IsServiceReason(reason) == reason.k \in {"service", "ai_failed_default", "parse_failed_item",
                                        "assistant_default", "assistant_parse_failed"}

RuleBasedTop ==
    /\ reasonerOutcome = "returned"
    /\ Len(finalMatches) = Min2(Len(llmInput), FinalTopN)
    /\ finalMatches = fallbackToRuleBasedLogic(llmInput, requestData, now, CurrentYear)
    /\ \A i \in DOMAIN finalMatches :
          /\ Len(finalMatches[i].matchReasons) >= 1
          /\ \A k \in DOMAIN finalMatches[i].matchReasons :
                ~IsServiceReason(finalMatches[i].matchReasons[k])

\* C7: when Tier 1 fails and every Tier-2 call fails the result is exactly
\* the min(n, 10) candidates with the highest rule-based adjusted scores,
\* each with at least one reason and none with a service score or reason.
C7_RuleBasedWhenServiceUnavailable ==
    (ServiceUnavailable /\ pc \in {"build", "done"}) => RuleBasedTop

\* the hard filter has returned (it did not raise)
HardFilterReturned == "HardFilter" \in stages /\ raisedIn # "HardFilter"

\* C8: when the HardFilter returns nothing, the caller gets a successful
\* result with no final matches and the fixed recommendations, and no later
\* stage is invoked.
C8_EmptyHardFilterShortCircuits ==
    (HardFilterReturned /\ hardFilteredPrograms = <<>>) =>
        /\ pc = "done"
        /\ response.status = "returned"
        /\ response.success
        /\ response.finalMatches = <<>>
        /\ response.recommendations =
              <<"no_matching_programs", "adjust_conditions", "wait_for_new_programs">>
        /\ stages = {"HardFilter"}
        /\ tiers = <<>>

\* a table with rows, none of which passes the filter
C8_Witness ==
    /\ HardFilterReturned
    /\ supportProgram # <<>>
    /\ hardFilteredPrograms = <<>>
    /\ response.success

SubScoresInRange(s) ==
    /\ s.category \in 0..10
    /\ s.amount \in 0..10
    /\ s.region \in 0..10
    /\ s.deadline \in 0..10
    /\ s.companySize \in 0..10

\* C9: the five sub-scores and the composite score of every scored program
\* lie in [0, 1], and so does the match score of every final match, whichever
\* tier produced it (a service judgment with any numeric score, or the
\* rule-based enhancement).
C9_ScoresInUnitInterval ==
    /\ "WeightedScorer" \in stages =>
          /\ \A i \in DOMAIN embeddingFilteredPrograms :
                LET s == SubScores(embeddingFilteredPrograms[i], requestData, now)
                IN /\ SubScoresInRange(s)
                   /\ calculateWeightedScore(s) \in 0..1000
          /\ \A i \in DOMAIN scoredPrograms : InUnitInterval(scoredPrograms[i].matchScore)
    /\ \A i \in DOMAIN finalMatches :
          finalMatches[i].matchScore # NaNScore => InUnitInterval(finalMatches[i].matchScore)
    /\ \A i \in DOMAIN response.finalMatches :
          response.finalMatches[i].matchScore # NaNScore
              => InUnitInterval(response.finalMatches[i].matchScore)

\* a completed request whose final matches hold a service score reported
\* above 1 and a rule-based score whose sum of adjustments exceeded 1
C9_Witness ==
    /\ Completed
    /\ response.finalMatches # <<>>
    /\ \E i \in DOMAIN enhancedPrograms :
          /\ HasReport(i)
          /\ rawAnswers.items[i].matchScore > ONE
          /\ Accepted(analyses[i])
          /\ enhancedPrograms[i].matchScore = ONE
    /\ \E j \in DOMAIN enhancedPrograms :
          /\ ~Accepted(analyses[j])
          /\ UnclampedAdjustedScore(llmInput[j], requestData, now) > ONE
          /\ enhancedPrograms[j].matchScore = ONE

\* the predicates of the filter on the fields of p that are not null
PassesOnNonNullFields(p) ==
    /\ CategoryCondition(p, requestData)
    /\ p.region # NullText => RegionCondition(p, requestData)
    /\ p.target # NullText => TargetCondition(p, requestData)
    /\ p.deadline # NullNum =>
          (DeadlineCondition(p, requestData, now) /\ ActiveCondition(p, now))

\* C10: a null region passes the region predicate, a null target passes the
\* eligibility predicate, a null deadline passes both deadline predicates;
\* a row that satisfies the predicates on all its non-null fields is never
\* excluded by the HardFilter.
C10_NullFieldsPass ==
    HardFilterReturned =>
        \A i \in DOMAIN supportProgram :
            LET p == supportProgram[i]
            IN /\ p.region = NullText => RegionCondition(p, requestData)
               /\ p.target = NullText => TargetCondition(p, requestData)
               /\ p.deadline = NullNum =>
                     (DeadlineCondition(p, requestData, now) /\ ActiveCondition(p, now))
               /\ PassesOnNonNullFields(p) =>
                     \E j \in DOMAIN hardFilteredPrograms : hardFilteredPrograms[j].id = p.id

\* the requester's region, type and urgency all put a predicate into the
\* query, and rows with a null region, a null target and a null deadline are
\* in the result
C10_Witness ==
    /\ HardFilterReturned
    /\ requestData.region \notin {"", "other"}
    /\ buildTargetConditions(requestData) # {}
    /\ \E j \in DOMAIN hardFilteredPrograms : hardFilteredPrograms[j].region = NullText
    /\ \E j \in DOMAIN hardFilteredPrograms : hardFilteredPrograms[j].target = NullText
    /\ \E j \in DOMAIN hardFilteredPrograms : hardFilteredPrograms[j].deadline = NullNum

\* the region of p textually matches the requester's region
RegionMatchesRequester(p) == Includes(p.region, getRegionKeywords(requestData.region))

\* the eligibility text of p contains a keyword of the lexicon for the
\* requester's entity type or size band
TargetMatchesRequester(p) == IncludesAny(p.target, buildTargetConditions(requestData))

\* C11: HardFilter soundness, for every profile ('corporation', '100+' and
\* 'other' included): each returned candidate satisfies all five predicates;
\* a returned candidate with an eligibility text contains a lexicon keyword
\* for the requester's entity type or size band, one with a region matches
\* the requester's region textually.
C11_HardFilterSound ==
    HardFilterReturned =>
        \A j \in DOMAIN hardFilteredPrograms :
            LET p == hardFilteredPrograms[j]
            IN /\ p.category \in Range(requestData.targetPrograms)
               /\ p.region # NullText => RegionMatchesRequester(p)
               /\ p.target # NullText => TargetMatchesRequester(p)
               /\ p.deadline # NullNum =>
                     /\ p.deadline >= now
                     /\ p.deadline <= now + Days(UrgencyDays(requestData.urgency))

\* row p would be returned but for its deadline
PassesExceptDeadline(p) ==
    /\ CategoryCondition(p, requestData)
    /\ RegionCondition(p, requestData)
    /\ TargetCondition(p, requestData)

Returned(p) == \E j \in DOMAIN hardFilteredPrograms : hardFilteredPrograms[j].id = p.id

\* C12: a row whose deadline is earlier than the time of the query is never
\* in the HardFilter's output, whatever its other fields and the profile; and
\* every returned candidate with a deadline has it within the urgency horizon
\* (30 / 90 / 180 / 365 days from now for immediate / short / medium / long).
C12_ClosedOrLateExcluded ==
    HardFilterReturned =>
        /\ \A i \in DOMAIN supportProgram :
              (supportProgram[i].deadline # NullNum /\ supportProgram[i].deadline < now)
                  => ~Returned(supportProgram[i])
        /\ \A j \in DOMAIN hardFilteredPrograms :
              hardFilteredPrograms[j].deadline # NullNum =>
                  hardFilteredPrograms[j].deadline
                      <= now + Days(CASE requestData.urgency = "immediate" -> 30
                                      [] requestData.urgency = "short" -> 90
                                      [] requestData.urgency = "medium" -> 180
                                      [] requestData.urgency = "long" -> 365)

\* the table holds a row that closed less than a day before the query and a
\* row that closes after the horizon, both passing the other predicates, and
\* the output holds a row with a deadline
C12_Witness ==
    /\ HardFilterReturned
    /\ \E i \in DOMAIN supportProgram :
          /\ PassesExceptDeadline(supportProgram[i])
          /\ supportProgram[i].deadline # NullNum
          /\ supportProgram[i].deadline < now
          /\ supportProgram[i].deadline + DayTicks > now
    /\ \E i \in DOMAIN supportProgram :
          /\ PassesExceptDeadline(supportProgram[i])
          /\ supportProgram[i].deadline # NullNum
          /\ supportProgram[i].deadline > now + Days(UrgencyDays(requestData.urgency))
    /\ \E j \in DOMAIN hardFilteredPrograms : hardFilteredPrograms[j].deadline # NullNum

NoDuplicates(s) == \A i, j \in DOMAIN s : i # j => s[i] # s[j]

ReasonsWellFormed(reasons) ==
    /\ Len(reasons) >= 1
    /\ Len(reasons) <= MaxReasons
    /\ NoDuplicates(reasons)

\* C13: every element of finalMatches, whichever tier produced its judgment
\* (an accepted service judgment or the rule-based enhancement), carries at
\* least 1 and at most 5 match reasons, without duplicates.
C13_OneToFiveReasons ==
    reasonerOutcome = "returned" =>
        \A i \in DOMAIN finalMatches : ReasonsWellFormed(finalMatches[i].matchReasons)

\* what the rule-based enhancement adds to the composite score of candidate
\* i, before and after the clamp
RawAdjustment(i) ==
    UnclampedAdjustedScore(llmInput[i], requestData, now) - llmInput[i].matchScore

ClampedAdjustment(i) ==
    adjustScoreWithLlmLogic(llmInput[i], requestData, now) - llmInput[i].matchScore

Within(x, lo, hi) == lo <= x /\ x <= hi

\* C14 as stated: the score of the rule-based enhancement differs from the
\* candidate's composite score by at most 0.1 in absolute value, before and
\* after clamping.
C14_AdjustmentWithinTenth ==
    \A i \in DOMAIN llmInput :
        /\ Within(RawAdjustment(i), 0 - ONE \div 10, ONE \div 10)
        /\ Within(ClampedAdjustment(i), 0 - ONE \div 10, ONE \div 10)

\* C14 amended: the score of the rule-based enhancement lies between the
\* composite score minus 0.1 and the composite score plus 0.3, before and
\* after clamping (purpose term in [-0.1, +0.1], growth-stage bonus 0.1,
\* urgency bonus 0.05, innovation bonus 0.05).
C14_AdjustmentBounds ==
    \A i \in DOMAIN llmInput :
        /\ Within(RawAdjustment(i), 0 - ONE \div 10, (3 * ONE) \div 10)
        /\ Within(ClampedAdjustment(i), 0 - ONE \div 10, (3 * ONE) \div 10)

\* the rule-based tier has produced the result and one of its candidates got
\* the full 0.3 before the clamp
C14_Witness ==
    /\ reasonerOutcome = "returned"
    /\ tiers = <<"tier1", "tier3">>
    /\ \E i \in DOMAIN llmInput, j \in DOMAIN finalMatches :
          /\ RawAdjustment(i) = (3 * ONE) \div 10
          /\ finalMatches[j].id = llmInput[i].id
          /\ finalMatches[j].matchScore = llmInput[i].matchScore + ClampedAdjustment(i)

(***************************************************************************)
(* OpenAIService.analyzeBatchMatching, call by call.  Every program's      *)
(* analyzeMatching call is "unissued", "pending", "fulfilled" or           *)
(* "rejected".  Promise.all over the calls of a batch fulfils when all of  *)
(* them have fulfilled and rejects as soon as one of them has rejected,    *)
(* whatever the state of the others.                                       *)
(***************************************************************************)
MaxBatchPrograms == 7

\* program k is in the slice programs.slice(offset, offset + batchSize)
InBatch(k, offset) == offset < k /\ k <= offset + BatchSize

\* the loop test i < programs.length after i += batchSize
AfterBatch(offset) == IF offset + BatchSize < Len(callStatus) THEN "issue" ELSE "done"

\* the slice of results one batch contributes
BatchSlice(offset, what) ==
    [k \in 1..(Min2(offset + BatchSize, Len(callStatus)) - offset) |-> what]

\* the reasoner has entered analyzeBatchMatching with 1..MaxBatchPrograms programs
InitBatch ==
    /\ supportProgram = Table(0)
    /\ requestData = CHOOSE r \in Requests : r.businessType = "startup"
    /\ now = StartTime
    /\ pc = "tier2"
    /\ currentVectorStoreId = 0
    /\ currentAssistantId = 0
    /\ hardFilteredPrograms = <<>>
    /\ embeddingFilteredPrograms = <<>>
    /\ scoredPrograms = <<>>
    /\ llmInput = <<>>
    /\ analyses = <<>>
    /\ rawAnswers = NoAnswers
    /\ enhancedPrograms = <<>>
    /\ finalMatches = <<>>
    /\ tiers = <<"tier1", "tier2">>
    /\ stages = {}
    /\ reasonerOutcome = "none"
    /\ raisedIn = "none"
    /\ response = NoResponse
    /\ callStatus \in {[k \in 1..n |-> "unissued"] : n \in 1..MaxBatchPrograms}
    /\ batchOffset = 0
    /\ batchPc = "issue"
    /\ batchResults = <<>>
    /\ delaysDone = {}
    /\ Quiescent

requestVars == <<inputVars, pc, currentVectorStoreId, currentAssistantId, pipelineVars,
                 reasonerVars, stages, raisedIn, response>>

\* batch.map(program => this.analyzeMatching(program, requestData))
IssueBatch ==
    /\ batchPc = "issue"
    /\ callStatus' = [k \in DOMAIN callStatus |->
                         IF InBatch(k, batchOffset) THEN "pending" ELSE callStatus[k]]
    /\ batchPc' = "await"
    /\ UNCHANGED <<requestVars, batchOffset, batchResults, delaysDone>>

\* one analyzeMatching call settles, whatever the loop is doing
CallSettles ==
    /\ \E k \in DOMAIN callStatus, outcome \in {"fulfilled", "rejected"} :
          /\ callStatus[k] = "pending"
          /\ callStatus' = [callStatus EXCEPT ![k] = outcome]
    /\ UNCHANGED <<requestVars, batchOffset, batchPc, batchResults, delaysDone>>

\* await Promise.all(batchPromises) fulfils: results.push(...batchResults)
PromiseAllFulfils ==
    /\ batchPc = "await"
    /\ \A k \in DOMAIN callStatus : InBatch(k, batchOffset) => callStatus[k] = "fulfilled"
    /\ batchResults' = batchResults \o BatchSlice(batchOffset, "analysis")
    /\ IF batchOffset + BatchSize < Len(callStatus)
       THEN /\ batchPc' = "delay"
            /\ UNCHANGED batchOffset
       ELSE /\ batchPc' = "done"
            /\ batchOffset' = batchOffset + BatchSize
    /\ UNCHANGED <<requestVars, callStatus, delaysDone>>

\* await this.delay(100) completes and the loop goes on to the next batch
DelayElapses ==
    /\ batchPc = "delay"
    /\ delaysDone' = delaysDone \cup {batchOffset}
    /\ batchOffset' = batchOffset + BatchSize
    /\ batchPc' = "issue"
    /\ UNCHANGED <<requestVars, callStatus, batchResults>>

\* await Promise.all(batchPromises) rejects: the catch block pushes the
\* defaults and the loop goes on to the next batch
PromiseAllRejects ==
    /\ batchPc = "await"
    /\ \E k \in DOMAIN callStatus : InBatch(k, batchOffset) /\ callStatus[k] = "rejected"
    /\ batchResults' = batchResults \o BatchSlice(batchOffset, "default")
    /\ batchOffset' = batchOffset + BatchSize
    /\ batchPc' = AfterBatch(batchOffset)
    /\ UNCHANGED <<requestVars, callStatus, delaysDone>>

NextBatch ==
    \/ IssueBatch
    \/ CallSettles
    \/ PromiseAllFulfils
    \/ DelayElapses
    \/ PromiseAllRejects

SpecBatch == InitBatch /\ [][NextBatch]_vars

\* the calls that have been issued and have not settled
InFlight == {k \in DOMAIN callStatus : callStatus[k] = "pending"}

\* program k's call has been issued
Issued(k) == callStatus[k] # "unissued"

\* program k's call has settled
Settled(k) == callStatus[k] \in {"fulfilled", "rejected"}

\* C15: during Tier 2 at most 5 per-candidate calls are in flight, and a call
\* of batch k+1 is issued only after every call of batch k has settled and the
\* delay after batch k has elapsed, also when a call of batch k fails.
C15_BatchesAreSequential ==
    /\ Cardinality(InFlight) <= BatchSize
    /\ \A k \in DOMAIN callStatus :
          (Issued(k) /\ BatchOf(k) > 0)
             => /\ \A j \in DOMAIN callStatus : BatchOf(j) = BatchOf(k) - 1 => Settled(j)
                /\ (BatchOf(k) - 1) * BatchSize \in delaysDone

\* the candidate of the WeightedScorer's input that a scored program came from
ScoredFrom(sp) ==
    {j \in DOMAIN embeddingFilteredPrograms : embeddingFilteredPrograms[j].id = sp.id}

\* 0.40 category + 0.25 amount + 0.15 region + 0.10 deadline + 0.10 companySize,
\* in thousandths, of candidate p for the request in hand at the clock's time
ExactComposite(p) ==
    LET s == SubScores(p, requestData, now)
    IN  40 * s.category + 25 * s.amount + 15 * s.region + 10 * s.deadline
          + 10 * s.companySize

\* score is a whole number of hundredths nearest to the exact sum (thousandths)
RoundedToTwoDecimals(score, exact) ==
    /\ score % (ONE \div 100) = 0
    /\ LET hundredths == score \div (ONE \div 100)
       IN  /\ hundredths * 10 - exact <= 5
           /\ exact - hundredths * 10 <= 5

\* C16: every program the WeightedScorer returns carries the composite
\* 0.40 category + 0.25 amount + 0.15 region + 0.10 deadline + 0.10 companySize
\* of its candidate, rounded to two decimals; the returned list is in
\* non-increasing composite order; and the composite of a candidate is the
\* one the scorer gives the candidate when it is scored alone with the same
\* profile and clock.
C16_WeightedComposite ==
    "WeightedScorer" \in stages =>
        /\ Len(scoredPrograms) = Len(embeddingFilteredPrograms)
        /\ \A i \in DOMAIN scoredPrograms :
              /\ ScoredFrom(scoredPrograms[i]) # {}
              /\ \A j \in ScoredFrom(scoredPrograms[i]) :
                    /\ RoundedToTwoDecimals(scoredPrograms[i].matchScore,
                                            ExactComposite(embeddingFilteredPrograms[j]))
                    /\ calculateScores(<<embeddingFilteredPrograms[j]>>, requestData, now)[1].matchScore
                          = scoredPrograms[i].matchScore
        /\ NonIncreasing(scoredPrograms)

\* the scorer has ranked at least three candidates with different composites,
\* reordering its input, and one exact sum lay half-way between two hundredths
C16_Witness ==
    /\ "WeightedScorer" \in stages
    /\ Len(scoredPrograms) >= 3
    /\ \E i, j \in DOMAIN scoredPrograms :
          i < j /\ scoredPrograms[i].matchScore > scoredPrograms[j].matchScore
    /\ \E i \in DOMAIN scoredPrograms :
          scoredPrograms[i].id # embeddingFilteredPrograms[i].id
    /\ \E j \in DOMAIN embeddingFilteredPrograms :
          ExactComposite(embeddingFilteredPrograms[j]) % 10 = 5

(***************************************************************************)
(* MatchingService.applyEmbeddingFilters on the results of larger tables:  *)
(* the request has passed stage 1 and stage 2 is applied to its result.    *)
(***************************************************************************)
MaxRelevancePrograms == 63

\* table sizes whose stage-1 results lie below, at and above the cap of 50
RelevanceTableSizes == {7, 21, 58, 59, 60, MaxRelevancePrograms}

InitRelevance ==
    /\ supportProgram \in {Table(n) : n \in RelevanceTableSizes}
    /\ requestData \in Requests
    /\ now \in QueryTimes
    /\ hardFilteredPrograms = applyHardFilters(supportProgram, requestData, now)
    /\ hardFilteredPrograms # <<>>
    /\ pc = "embedding"
    /\ stages = {"HardFilter"}
    /\ currentVectorStoreId = 0
    /\ currentAssistantId = 0
    /\ embeddingFilteredPrograms = <<>>
    /\ scoredPrograms = <<>>
    /\ llmInput = <<>>
    /\ analyses = <<>>
    /\ rawAnswers = NoAnswers
    /\ enhancedPrograms = <<>>
    /\ finalMatches = <<>>
    /\ tiers = <<>>
    /\ reasonerOutcome = "none"
    /\ raisedIn = "none"
    /\ response = NoResponse
    /\ callStatus = <<>>
    /\ batchOffset = 0
    /\ batchPc = "idle"
    /\ batchResults = <<>>
    /\ delaysDone = {}
    /\ Quiescent

NextRelevance == ApplyEmbeddingFilters

SpecRelevance == InitRelevance /\ [][NextRelevance]_vars

\* the number of keyword hits of p for the request's business purpose: 3 per
\* keyword in the title, 2 per keyword in the description, 1 per keyword and tag
LexicalScore(p) ==
    IF requestData.businessPurpose \in {NullText, EmptyText} THEN 0
    ELSE embeddingScoreOf(p, extractKeywords(requestData.businessPurpose))

\* the position in the stage's input of the candidate with this id
InputPosition(id) ==
    CHOOSE j \in DOMAIN hardFilteredPrograms : hardFilteredPrograms[j].id = id

ReturnedIds == {embeddingFilteredPrograms[i].id : i \in DOMAIN embeddingFilteredPrograms}

\* C17: the RelevanceFilter returns at most 50 candidates, each of them one of
\* its input and none twice, in non-increasing order of lexical score with
\* candidates of equal score in their input order; no candidate left out has
\* a strictly higher score than one returned.
C17_TopFiftyByLexicalScore ==
    "RelevanceFilter" \in stages =>
        /\ Len(embeddingFilteredPrograms) <= 50
        /\ Len(embeddingFilteredPrograms) = Min2(Len(hardFilteredPrograms), 50)
        /\ \A i \in DOMAIN embeddingFilteredPrograms :
              \E j \in DOMAIN hardFilteredPrograms :
                 /\ hardFilteredPrograms[j].id = embeddingFilteredPrograms[i].id
                 /\ [embeddingFilteredPrograms[i] EXCEPT !.embeddingScore = NullNum]
                       = [hardFilteredPrograms[j] EXCEPT !.embeddingScore = NullNum]
        /\ \A i, j \in DOMAIN embeddingFilteredPrograms :
              i < j =>
                 /\ embeddingFilteredPrograms[i].id # embeddingFilteredPrograms[j].id
                 /\ LexicalScore(embeddingFilteredPrograms[i])
                       >= LexicalScore(embeddingFilteredPrograms[j])
                 /\ LexicalScore(embeddingFilteredPrograms[i])
                       = LexicalScore(embeddingFilteredPrograms[j])
                    => InputPosition(embeddingFilteredPrograms[i].id)
                          < InputPosition(embeddingFilteredPrograms[j].id)
        /\ \A j \in DOMAIN hardFilteredPrograms :
              hardFilteredPrograms[j].id \notin ReturnedIds
                 => \A i \in DOMAIN embeddingFilteredPrograms :
                       LexicalScore(hardFilteredPrograms[j])
                          <= LexicalScore(embeddingFilteredPrograms[i])

\* the filter was given more than 50 candidates, moved a candidate with a
\* higher score ahead of earlier ones, returned 50 and left out a candidate
\* whose score equals that of the last one returned
C17_Witness ==
    /\ "RelevanceFilter" \in stages
    /\ Len(hardFilteredPrograms) > 50
    /\ Len(embeddingFilteredPrograms) = 50
    /\ \E i \in DOMAIN embeddingFilteredPrograms :
          /\ InputPosition(embeddingFilteredPrograms[i].id) > i
          /\ LexicalScore(embeddingFilteredPrograms[i]) > 0
    /\ \E j \in DOMAIN hardFilteredPrograms :
          /\ hardFilteredPrograms[j].id \notin ReturnedIds
          /\ LexicalScore(hardFilteredPrograms[j])
                = LexicalScore(embeddingFilteredPrograms[50])

(***************************************************************************)
(* ScoringService.calculateScores as a function of its arguments: the      *)
(* request and the list of programs are drawn from the sets below and the  *)
(* scorer is applied to them.                                              *)
(***************************************************************************)
\* requests for the category "02" over the entity types, the smallest and the
\* largest size bands, regions inside and outside the region tables (and no
\* region), and two urgency tiers
ScoringRequests ==
    { Request(businessType, TxtAiSolution, 2024, size[1], size[2], region, <<"02">>, urgency, "given") :
        businessType \in {"startup", "corporation"},
        size \in {<<"1-9", "under-1b">>, <<"100+", "over-50b">>},
        region \in {"", "seoul", "incheon", "jeju", "other"},
        urgency \in {"short", "immediate"} }

\* a program of category "02" with the given target, region, deadline and amounts
Candidate(id, target, region, deadline, amountMin, amountMax) ==
    Program(id, TxtAiDev, TxtAiSolution, "02", target, region, deadline, amountMin,
            amountMax, 80, <<>>)

\* no deadline; closed half a day and a whole day before the start; closing
\* 20, 100, 200 and 300 days after it
ScoringDeadlines ==
    {NullNum, StartTime - DayTicks \div 2, StartTime - DayTicks, At(20), At(100), At(200), At(300)}

ScoringCandidates ==
    { Candidate(1, target, region, deadline, amountMin, amountMax) :
        target \in {NullText, TgtSme},
        region \in {NullText, RgnSeoul, RgnGyeonggi, RgnBusan},
        deadline \in ScoringDeadlines,
        amountMin \in {NullNum, 100, 8000},
        amountMax \in {NullNum, 1, 500, 50000} }

\* p with amountMax ten times the upper end of r's expected amount range
Oversized(p, r) == [p EXCEPT !.id = 2, !.amountMax = ExpectedMax10(r)]

\* the lists scored: a candidate and its oversized twin
ScoringInputs(r) == { <<p, Oversized(p, r)>> : p \in ScoringCandidates }

InitScoring ==
    /\ requestData \in ScoringRequests
    /\ embeddingFilteredPrograms \in ScoringInputs(requestData)
    /\ now = StartTime
    /\ supportProgram = embeddingFilteredPrograms
    /\ hardFilteredPrograms = embeddingFilteredPrograms
    /\ pc = "scoring"
    /\ stages = {"HardFilter", "RelevanceFilter"}
    /\ currentVectorStoreId = 0
    /\ currentAssistantId = 0
    /\ scoredPrograms = <<>>
    /\ llmInput = <<>>
    /\ analyses = <<>>
    /\ rawAnswers = NoAnswers
    /\ enhancedPrograms = <<>>
    /\ finalMatches = <<>>
    /\ tiers = <<>>
    /\ reasonerOutcome = "none"
    /\ raisedIn = "none"
    /\ response = NoResponse
    /\ callStatus = <<>>
    /\ batchOffset = 0
    /\ batchPc = "idle"
    /\ batchResults = <<>>
    /\ delaysDone = {}
    /\ Quiescent

NextScoring == CalculateScores

SpecScoring == InitScoring /\ [][NextScoring]_vars

\* the scorer has run on the list in embeddingFilteredPrograms
Scored == "WeightedScorer" \in stages

\* the request and candidate p are those of the scenario: the only requested
\* category is p's, the urgency is short, the requester is in Seoul, p has no
\* region and p closes 20 days from now
InScenario(p) ==
    /\ requestData.targetPrograms = <<p.category>>
    /\ requestData.urgency = "short"
    /\ requestData.region = "seoul"
    /\ p.region = NullText
    /\ p.deadline = now + Days(20)

\* the three sub-scores the scenario names are 1.0
ScenarioSubScores(p) ==
    LET s == SubScores(p, requestData, now)
    IN  s.region = 10 /\ s.deadline = 10 /\ s.category = 10

\* C18 as stated: in the scenario the region, deadline and category
\* sub-scores are 1.0 and the composite is at least 0.9, whatever the other
\* fields of the candidate.
C18_ScenarioCompositeAtLeastNineTenths ==
    Scored =>
        \A i \in DOMAIN scoredPrograms : \A j \in ScoredFrom(scoredPrograms[i]) :
           InScenario(embeddingFilteredPrograms[j])
              => /\ ScenarioSubScores(embeddingFilteredPrograms[j])
                 /\ scoredPrograms[i].matchScore >= (ONE * 9) \div 10

\* C18 amended: in the scenario the region, deadline and category sub-scores
\* are 1.0 and the composite is at least 0.75; it is 0.93 when the candidate
\* has neither amounts nor a target.
C18_ScenarioComposite ==
    Scored =>
        \A i \in DOMAIN scoredPrograms : \A j \in ScoredFrom(scoredPrograms[i]) :
           LET p == embeddingFilteredPrograms[j]
           IN  InScenario(p)
                  => /\ ScenarioSubScores(p)
                     /\ scoredPrograms[i].matchScore >= (ONE * 75) \div 100
                     /\ (p.amountMin = NullNum /\ p.amountMax = NullNum /\ p.target = NullText)
                           => scoredPrograms[i].matchScore = (ONE * 93) \div 100

\* a candidate of the scenario with a small maximum amount and an unmatched
\* target has been scored at 0.75
C18_Witness ==
    /\ Scored
    /\ \E i \in DOMAIN scoredPrograms : \E j \in ScoredFrom(scoredPrograms[i]) :
          LET p == embeddingFilteredPrograms[j]
          IN  /\ InScenario(p)
              /\ p.amountMin = NullNum /\ p.amountMax = 1 /\ p.target # NullText
              /\ scoredPrograms[i].matchScore = (ONE * 75) \div 100

\* q is p with amountMax ten times the upper end of the expected range
IsOversizedTwin(q, p) ==
    /\ q.amountMax = ExpectedMax10(requestData)
    /\ p.amountMax # q.amountMax
    /\ [q EXCEPT !.id = p.id, !.amountMax = p.amountMax] = p

\* C19: of two scored candidates that are identical except that one has
\* amountMax equal to ten times the expected-range ceiling, the oversized one
\* has an amount sub-score no higher than the other's.
C19_OversizedScoresNoHigher ==
    Scored =>
        \A i, j \in DOMAIN embeddingFilteredPrograms :
           IsOversizedTwin(embeddingFilteredPrograms[j], embeddingFilteredPrograms[i])
              => calculateAmountScore(embeddingFilteredPrograms[j], requestData)
                    <= calculateAmountScore(embeddingFilteredPrograms[i], requestData)

\* the region keyword of the requester: the city name of the alias table, or
\* the region code itself when the table has no entry
RequesterKeyword ==
    CASE requestData.region = "seoul" -> <<"seo", "ul">>
      [] requestData.region = "incheon" -> <<"in", "cheon">>
      [] requestData.region = "jeju" -> <<"j", "e", "j", "u">>
      [] requestData.region = "other" -> <<"o", "t", "h", "e", "r">>
      [] OTHER -> <<>>

\* the city names next to the requester's region in the adjacency table
RequesterNeighbours ==
    CASE requestData.region = "seoul" -> {<<"gyeong", "gi">>, <<"in", "cheon">>}
      [] requestData.region = "incheon" -> {<<"seo", "ul">>, <<"gyeong", "gi">>}
      [] OTHER -> {}

\* the region sub-score of p, in tenths, as the claim gives it
ClaimedRegionScore(p) ==
    IF p.region = NullText \/ requestData.region = "" THEN 10
    ELSE IF Includes(p.region, RequesterKeyword) THEN 10
    ELSE IF IncludesAny(p.region, RequesterNeighbours) THEN 7
    ELSE 3

Horizon ==
    CASE requestData.urgency = "immediate" -> 30
      [] requestData.urgency = "short" -> 90
      [] requestData.urgency = "medium" -> 180
      [] requestData.urgency = "long" -> 365

\* the deadline sub-score of p, in tenths, as the claim gives it; the days
\* remaining of an open deadline are counted in whole days, rounded up
ClaimedDeadlineScore(p) ==
    IF p.deadline = NullNum THEN 8
    ELSE IF p.deadline < now THEN 0
    ELSE LET daysRemaining == (p.deadline - now + DayTicks - 1) \div DayTicks
         IN  IF daysRemaining <= Horizon THEN 10
             ELSE IF daysRemaining <= 2 * Horizon THEN 8
             ELSE IF daysRemaining <= 3 * Horizon THEN 6
             ELSE 4

\* C21: the deadline sub-score is 0 for every candidate whose deadline is
\* earlier than the scoring time, by however little; for an open fixed
\* deadline it is 1.0 / 0.8 / 0.6 / 0.4 as the days remaining are within the
\* horizon, twice the horizon, three times the horizon or beyond; it is 0.8
\* for a candidate without deadline.
C21_DeadlineSubScore ==
    Scored =>
        \A i \in DOMAIN embeddingFilteredPrograms :
           calculateDeadlineScore(embeddingFilteredPrograms[i], requestData, now)
              = ClaimedDeadlineScore(embeddingFilteredPrograms[i])

(***************************************************************************)
(* DataMapperService and SupportProgramSyncService: ingestion of upstream  *)
(* records into the supportProgram table                                   *)
(***************************************************************************)
MaxApiRecords == 2
MaxTags == 20

\* words joined by single blanks
RECURSIVE JoinWords(_)
JoinWords(ws) ==
    IF ws = <<>> THEN <<>>
    ELSE IF Len(ws) = 1 THEN Head(ws)
    ELSE Head(ws) \o <<" ">> \o JoinWords(Tail(ws))

\* cleanText: '' for a missing text, else trim() and runs of blanks made one
cleanText(text) ==
    IF text = NullText \/ text = EmptyText THEN EmptyText ELSE JoinWords(Words(text))

\* cleanHtmlContent on texts without markup (and below 1000 characters)
cleanHtmlContent(text) == cleanText(text)

\* hashtags.split(','): the pieces between commas, in order
RECURSIVE SplitOnComma(_, _, _)
SplitOnComma(text, i, cur) ==
    IF i > Len(text) THEN <<cur>>
    ELSE IF text[i] = ","
         THEN <<cur>> \o SplitOnComma(text, i + 1, <<>>)
         ELSE SplitOnComma(text, i + 1, Append(cur, text[i]))

\* map(tag => tag.trim()).filter(tag => tag.length > 0)
RECURSIVE TrimmedNonEmpty(_)
TrimmedNonEmpty(pieces) ==
    IF pieces = <<>> THEN <<>>
    ELSE (IF Words(Head(pieces)) = <<>> THEN <<>> ELSE <<JoinWords(Words(Head(pieces)))>>)
         \o TrimmedNonEmpty(Tail(pieces))

parseHashtags(hashtags) ==
    IF hashtags = NullText \/ hashtags = EmptyText THEN <<>>
    ELSE Prefix(TrimmedNonEmpty(SplitOnComma(hashtags, 1, <<>>)), MaxTags)

\* parseDeadline: the end date of a "begin ~ end" range, null for a missing
\* text, for "until the budget is used up" and for any other text
parseDeadline(dateRange) ==
    IF dateRange.kind = "range" THEN dateRange.end ELSE NullNum

\* mapToSupportProgramCategoryCode: the first keyword group that matches
mapToSupportProgramCategoryCode(categoryName) ==
    IF categoryName = NullText \/ categoryName = EmptyText THEN "09"
    ELSE IF IncludesAny(categoryName, {<<"geum", "yung">>, <<"ja", "geum">>, <<"tu", "ja">>,
                                       <<"yung", "ja">>, <<"dae", "chul">>, <<"bo", "jeung">>})
         THEN "01"
    ELSE IF IncludesAny(categoryName, {<<"gi", "sul">>, <<"yeon", "gu">>, <<"gae", "bal">>,
                                       <<"r", "&", "d">>, <<"teuk", "heo">>, <<"hyeok", "sin">>})
         THEN "02"
    ELSE IF IncludesAny(categoryName, {<<"in", "ryeok">>, <<"gyo", "yuk">>, <<"hun", "ryeon">>,
                                       <<"chae", "yong">>, <<"go", "yong">>, <<"in", "jae">>})
         THEN "03"
    ELSE IF IncludesAny(categoryName, {<<"su", "chul">>, <<"hae", "oe">>, <<"geul", "lo", "beol">>,
                                       <<"guk", "je">>, <<"mu", "yeok">>})
         THEN "04"
    ELSE IF IncludesAny(categoryName, {<<"nae", "su">>, <<"guk", "nae">>, <<"ma", "ke", "ting">>,
                                       <<"pan", "mae">>, <<"hong", "bo">>})
         THEN "05"
    ELSE IF IncludesAny(categoryName, {<<"chang", "eop">>, <<"seu", "ta", "teu", "eop">>,
                                       <<"ye", "bi", "chang", "eop">>,
                                       <<"cheong", "nyeon", "chang", "eop">>})
         THEN "06"
    ELSE IF IncludesAny(categoryName, {<<"gyeong", "yeong">>, <<"keon", "seol", "ting">>,
                                       <<"jin", "dan">>, <<"gae", "seon">>, <<"un", "yeong">>})
         THEN "07"
    ELSE "09"

\* mapBizinfoDataToProgram: target is data.trgetNm || '전체'
mapBizinfoDataToProgram(data) ==
    [title |-> cleanText(data.pblancNm),
     category |-> mapToSupportProgramCategoryCode(data.pldirSportRealmLclasCodeNm),
     target |-> IF data.trgetNm = NullText \/ data.trgetNm = EmptyText THEN TgtAll
                ELSE data.trgetNm,
     description |-> cleanHtmlContent(data.bsnsSumryCn),
     deadline |-> parseDeadline(data.reqstBeginEndDe),
     tags |-> parseHashtags(data.hashtags)]

mapMultipleProgramsData(dataList) ==
    [i \in 1..Len(dataList) |-> mapBizinfoDataToProgram(dataList[i])]

\* findFirst({ where: { title } }): the first row with that title, 0 if none
ExistingProgram(table, title) ==
    IF \E i \in DOMAIN table : table[i].title = title
    THEN CHOOSE i \in DOMAIN table :
            table[i].title = title /\ \A j \in DOMAIN table : table[j].title = title => i <= j
    ELSE 0

\* upsertSupportProgram: update the mapped columns of the row with that
\* title, or create a row; the other columns keep their value (null in a new row)
upsertSupportProgram(table, m) ==
    LET i == ExistingProgram(table, m.title)
    IN  IF i # 0
        THEN [table EXCEPT ![i] = [@ EXCEPT !.title = m.title, !.category = m.category,
                                            !.target = m.target,
                                            !.description = m.description,
                                            !.deadline = m.deadline, !.tags = m.tags]]
        ELSE Append(table,
                    Program(Len(table) + 1, m.title, m.description, m.category, m.target,
                            NullText, m.deadline, NullNum, NullNum, NullNum, m.tags))

\* the loop of syncAllPrograms over the mapped records
RECURSIVE UpsertAll(_, _)
UpsertAll(table, mapped) ==
    IF mapped = <<>> THEN table
    ELSE UpsertAll(upsertSupportProgram(table, Head(mapped)), Tail(mapped))

\* an upstream record
BizinfoProgramData(pblancNm, categoryName, trgetNm, dateRange, hashtags) ==
    [pblancNm |-> pblancNm, pldirSportRealmLclasCodeNm |-> categoryName, trgetNm |-> trgetNm,
     bsnsSumryCn |-> pblancNm, reqstBeginEndDe |-> dateRange, hashtags |-> hashtags]

\* the deadline texts: missing, a range ending 20 days from the start, and
\* "until the budget is used up"
DateRanges ==
    { [kind |-> "missing", end |-> NullNum], [kind |-> "range", end |-> At(20)],
      [kind |-> "budget", end |-> NullNum] }

\* a new title with blanks around it, and the title of a seeded row
UpstreamTitles ==
    { <<" ", "sin", "gyu", " ", " ", "sa", "eop", " ">>, <<"chang", "eop", " ", "ja", "geum">> }

UpstreamRecords ==
    { BizinfoProgramData(title, categoryName, trgetNm, dateRange,
                         <<"a", "i", ",", " ", "gae", "bal", ",", ",">>) :
        title \in UpstreamTitles,
        categoryName \in {NullText, <<"gi", "sul", " ", "gae", "bal">>},
        trgetNm \in {NullText, EmptyText, TgtYouthFounder},
        dateRange \in DateRanges }

\* the lists fetchAllSupportPrograms may return: up to MaxApiRecords records
\* with different titles
ApiDataLists ==
    { s \in SeqsUpTo(UpstreamRecords, MaxApiRecords) :
        \A i, j \in DOMAIN s : i # j => s[i].pblancNm # s[j].pblancNm }

InitSync ==
    /\ supportProgram \in {Table(0), Table(3)}
    /\ requestData \in Requests
    /\ now = StartTime
    /\ pc = "sync"
    /\ currentVectorStoreId = 0
    /\ currentAssistantId = 0
    /\ hardFilteredPrograms = <<>>
    /\ embeddingFilteredPrograms = <<>>
    /\ scoredPrograms = <<>>
    /\ llmInput = <<>>
    /\ analyses = <<>>
    /\ rawAnswers = NoAnswers
    /\ enhancedPrograms = <<>>
    /\ finalMatches = <<>>
    /\ tiers = <<>>
    /\ stages = {}
    /\ reasonerOutcome = "none"
    /\ raisedIn = "none"
    /\ response = NoResponse
    /\ callStatus = <<>>
    /\ batchOffset = 0
    /\ batchPc = "idle"
    /\ batchResults = <<>>
    /\ delaysDone = {}
    /\ apiData = <<>>
    /\ polling = NotPolling
    /\ initializers = [p \in Initializers |-> NotStarted]
    /\ attached = [a \in CreatedIds |-> 0]
    /\ isRunning = FALSE
    /\ syncs = [e \in SyncEntryPoints |-> NoSync]

\* SupportProgramSyncService.syncAllPrograms; afterwards a request arrives
SyncAllPrograms ==
    /\ pc = "sync"
    /\ \E fetched \in ApiDataLists :
          /\ apiData' = fetched
          /\ supportProgram' = UpsertAll(supportProgram, mapMultipleProgramsData(fetched))
    /\ pc' = "received"
    /\ UNCHANGED <<requestData, now, polling, initializers, attached, isRunning, syncs, serviceVars,
                   pipelineVars, reasonerVars, stages, raisedIn, response>>

\* the sync, then a request through stages 1 to 3
NextSync ==
    \/ SyncAllPrograms
    \/ CreateMatching
    \/ ApplyHardFilters
    \/ ApplyEmbeddingFilters
    \/ CalculateScores

SpecSync == InitSync /\ [][NextSync]_vars

\* the rows that the last sync wrote from a record without target information
SyncedWithoutTarget ==
    { i \in DOMAIN supportProgram :
        \E k \in DOMAIN apiData :
           /\ apiData[k].trgetNm \in {NullText, EmptyText}
           /\ supportProgram[i].title = cleanText(apiData[k].pblancNm) }

\* C22: once synced, a program whose upstream record carries no target
\* information passes the eligibility predicate of HardFilter for the
\* requester in hand, and HardFilter returns it when it passes the other
\* predicates.
C22_MissingTargetOpenToAll ==
    \A i \in SyncedWithoutTarget :
       /\ TargetCondition(supportProgram[i], requestData)
       /\ (HardFilterReturned
             /\ CategoryCondition(supportProgram[i], requestData)
             /\ RegionCondition(supportProgram[i], requestData)
             /\ DeadlineCondition(supportProgram[i], requestData, now)
             /\ ActiveCondition(supportProgram[i], now))
          => \E j \in DOMAIN hardFilteredPrograms :
                hardFilteredPrograms[j].id = supportProgram[i].id

\* a > b on IEEE doubles: false when either side is NaN
ScoreHigher(a, b) == a # NaNScore /\ b # NaNScore /\ a > b

\* the sum of the counts of a category histogram
RECURSIVE SumOfCounts(_, _)
SumOfCounts(distribution, categories) ==
    IF categories = {} THEN 0
    ELSE LET c == CHOOSE x \in categories : TRUE
         IN  distribution[c] + SumOfCounts(distribution, categories \ {c})

\* the sum of the match scores, all of them being numbers
RECURSIVE TotalScore(_)
TotalScore(matches) ==
    IF matches = <<>> THEN 0 ELSE Head(matches).matchScore + TotalScore(Tail(matches))

\* average is a whole number of hundredths nearest to the mean of the scores
IsRoundedMean(average, matches) ==
    /\ \A i \in DOMAIN matches : matches[i].matchScore # NaNScore
    /\ average % (ONE \div 100) = 0
    /\ 200 * (average * Len(matches) - TotalScore(matches)) <= Len(matches) * ONE
    /\ 200 * (TotalScore(matches) - average * Len(matches)) <= Len(matches) * ONE

\* C23: in every successful non-empty result the best match of the summary
\* is the first final match and no final match has a higher score; the
\* category histogram has one entry per category present and its counts sum
\* to the number of final matches; the average is the mean of the final
\* match scores rounded to two decimals.
C23_SummaryConsistent ==
    (Completed /\ response.finalMatches # <<>>) =>
        /\ response.summary.bestMatch = <<response.finalMatches[1]>>
        /\ \A i \in DOMAIN response.finalMatches :
              ~ScoreHigher(response.finalMatches[i].matchScore,
                           response.finalMatches[1].matchScore)
        /\ DOMAIN response.summary.categoryDistribution
              = {response.finalMatches[i].category : i \in DOMAIN response.finalMatches}
        /\ SumOfCounts(response.summary.categoryDistribution,
                       DOMAIN response.summary.categoryDistribution)
              = Len(response.finalMatches)
        /\ IsRoundedMean(response.summary.averageMatchScore, response.finalMatches)

(***************************************************************************)
(* OpenAIService.waitForVectorStoreReady and waitForRunCompletion, one     *)
(* iteration step at a time.  Time is in seconds; polling.elapsed is       *)
(* Date.now() - startTime, polling.status the status last reported.        *)
(* The process starts (uploadAndCreateVectorStore, with its wait for the   *)
(* vector store), then serves a request whose Assistant tier waits for its *)
(* run.                                                                    *)
(***************************************************************************)
VectorStoreMaxWait == 300
VectorStoreCheckInterval == 5
RunMaxWait == 120
RunCheckInterval == 2

\* the longest a status query takes to return, in seconds
MaxQueryLatency == 1

maxWaitTime(kind) == IF kind = "vectorStore" THEN VectorStoreMaxWait ELSE RunMaxWait

checkInterval(kind) == IF kind = "vectorStore" THEN VectorStoreCheckInterval ELSE RunCheckInterval

\* the statuses on which the loop throws
FailureStatuses(kind) ==
    IF kind = "vectorStore" THEN {"expired"} ELSE {"failed", "cancelled", "expired"}

\* what a status query gives: a status, or "error" when the query itself throws
QueryOutcomes(kind) ==
    {"completed", "in_progress", "error"} \cup FailureStatuses(kind)
    \cup (IF kind = "run" THEN {"queued"} ELSE {})

StartPolling(kind) == [kind |-> kind, at |-> "test", status |-> "none", elapsed |-> 0]

Polls == polling.at \in {"test", "query", "delay"}

LeftLoop == polling.at \in {"returned", "raised", "timedOut"}

InitWait ==
    /\ supportProgram \in {Table(3), Table(8)}
    /\ requestData \in RequestsWith("given")
    /\ now = StartTime
    /\ pc = "startup"
    /\ currentVectorStoreId = 0
    /\ currentAssistantId = 0
    /\ hardFilteredPrograms = <<>>
    /\ embeddingFilteredPrograms = <<>>
    /\ scoredPrograms = <<>>
    /\ llmInput = <<>>
    /\ analyses = <<>>
    /\ rawAnswers = NoAnswers
    /\ enhancedPrograms = <<>>
    /\ finalMatches = <<>>
    /\ tiers = <<>>
    /\ stages = {}
    /\ reasonerOutcome = "none"
    /\ raisedIn = "none"
    /\ response = NoResponse
    /\ callStatus = <<>>
    /\ batchOffset = 0
    /\ batchPc = "idle"
    /\ batchResults = <<>>
    /\ delaysDone = {}
    /\ Quiescent

waitVars == <<supportProgram, requestData, now, apiData, initializers, attached, isRunning, syncs, batchVars,
              pipelineVars, reasonerVars, stages, raisedIn, response>>

\* uploadAndCreateVectorStore up to the call of waitForVectorStoreReady:
\* files.create and vectorStores.create, either of which may throw
CreateVectorStore ==
    /\ pc = "startup"
    /\ \E created \in BOOLEAN :
          IF created
          THEN /\ pc' = "storeWait"
               /\ polling' = StartPolling("vectorStore")
          ELSE /\ pc' = "received"
               /\ UNCHANGED polling
    /\ UNCHANGED <<waitVars, currentVectorStoreId, currentAssistantId>>

\* while (Date.now() - startTime < maxWaitTime); below the loop, throw
WaitLoopTest ==
    /\ polling.at = "test"
    /\ polling' = [polling EXCEPT
                     !.at = IF polling.elapsed < maxWaitTime(polling.kind)
                            THEN "query" ELSE "timedOut"]
    /\ UNCHANGED <<waitVars, pc, currentVectorStoreId, currentAssistantId>>

\* the retrieve call and the two tests of the status it reports
StatusQuery ==
    /\ polling.at = "query"
    /\ \E latency \in 0..MaxQueryLatency, outcome \in QueryOutcomes(polling.kind) :
          polling' = [polling EXCEPT
                        !.elapsed = @ + latency,
                        !.status = outcome,
                        !.at = IF outcome = "completed" THEN "returned"
                               ELSE IF outcome \in FailureStatuses(polling.kind) \cup {"error"}
                                    THEN "raised"
                                    ELSE "delay"]
    /\ UNCHANGED <<waitVars, pc, currentVectorStoreId, currentAssistantId>>

\* await this.delay(checkInterval)
CheckIntervalDelay ==
    /\ polling.at = "delay"
    /\ polling' = [polling EXCEPT !.elapsed = @ + checkInterval(polling.kind), !.at = "test"]
    /\ UNCHANGED <<waitVars, pc, currentVectorStoreId, currentAssistantId>>

\* uploadAndCreateVectorStore after waitForVectorStoreReady:
\* createOrUpdateAssistant, which may throw, and the two assignments
VectorStoreWaitEnds ==
    /\ pc = "storeWait"
    /\ polling.kind = "vectorStore"
    /\ LeftLoop
    /\ \E assistantReady \in BOOLEAN :
          IF polling.at = "returned" /\ assistantReady
          THEN /\ currentVectorStoreId' = 1
               /\ currentAssistantId' = 1
          ELSE UNCHANGED <<currentVectorStoreId, currentAssistantId>>
    /\ polling' = NotPolling
    /\ pc' = "received"
    /\ UNCHANGED waitVars

\* searchAndAnalyzeWithAssistant up to the call of waitForRunCompletion: the
\* test of the handles, then threads.create, messages.create and runs.create
SearchAndAnalyzeStarts ==
    /\ pc = "tier1"
    /\ stages' = stages \cup {"Reasoner"}
    /\ tiers' = Append(tiers, "tier1")
    /\ \E raises \in (IF currentAssistantId = 0 \/ currentVectorStoreId = 0
                      THEN {TRUE} ELSE BOOLEAN) :
          IF raises
          THEN /\ pc' = "tier3"
               /\ UNCHANGED polling
          ELSE /\ pc' = "runWait"
               /\ polling' = StartPolling("run")
    /\ UNCHANGED <<supportProgram, requestData, now, apiData, initializers, attached,
                   isRunning, syncs,
                   serviceVars, pipelineVars, analyses, rawAnswers, enhancedPrograms, finalMatches, reasonerOutcome,
                   raisedIn, response>>

\* searchAndAnalyzeWithAssistant after waitForRunCompletion.  What the wait
\* throws reaches the catch block of analyzeFinalMatches; after a completed
\* run, messages.list may throw or hold no assistant message, or the message
\* is parsed and handed back.  The frame of the wait is gone: only the status
\* it last saw is kept
SearchAndAnalyzeResumes ==
    /\ pc = "runWait"
    /\ polling.kind = "run"
    /\ LeftLoop
    /\ polling' = [polling EXCEPT !.at = "over", !.elapsed = 0]
    /\ IF polling.at = "returned"
       THEN \E raises \in BOOLEAN :
               IF raises
               THEN /\ pc' = "tier3"
                    /\ UNCHANGED <<analyses, rawAnswers, enhancedPrograms, finalMatches,
                                   reasonerOutcome>>
               ELSE \E msg \in AssistantMessages : AssistantReturns(msg)
       ELSE /\ pc' = "tier3"
            /\ UNCHANGED <<analyses, rawAnswers, enhancedPrograms, finalMatches,
                           reasonerOutcome>>
    /\ UNCHANGED <<supportProgram, requestData, now, apiData, initializers, attached,
                   isRunning, syncs,
                   serviceVars, pipelineVars, tiers, stages, raisedIn, response>>

NextWait ==
    \/ CreateVectorStore
    \/ WaitLoopTest
    \/ StatusQuery
    \/ CheckIntervalDelay
    \/ VectorStoreWaitEnds
    \/ CreateMatching
    \/ ApplyHardFilters
    \/ ApplyEmbeddingFilters
    \/ CalculateScores
    \/ SearchAndAnalyzeStarts
    \/ SearchAndAnalyzeResumes
    \/ BatchTier
    \/ RuleBasedTier
    \/ BuildMatchingResult

\* every status query returns and every timer fires: a step of a wait that
\* can be taken is taken
SpecWait ==
    /\ InitWait
    /\ [][NextWait]_vars
    /\ WF_vars(WaitLoopTest)
    /\ WF_vars(StatusQuery)
    /\ WF_vars(CheckIntervalDelay)

\* a wait in progress ends
WaitsTerminate == Polls ~> LeftLoop

\* a wait returns on "completed", throws on a failure status (or when the
\* query threw), and otherwise throws only once the upper bound has elapsed
WaitOutcomesJustified ==
    /\ polling.at = "returned" => polling.status = "completed"
    /\ polling.at = "raised" => polling.status \in FailureStatuses(polling.kind) \cup {"error"}
    /\ polling.at = "timedOut" =>
          /\ polling.elapsed >= maxWaitTime(polling.kind)
          /\ polling.status \notin FailureStatuses(polling.kind) \cup {"completed", "error"}
    /\ polling.at = "query" => polling.elapsed < maxWaitTime(polling.kind)

\* the run wait of the request served threw
RunWaitRaised ==
    /\ polling.kind = "run"
    /\ polling.at = "over"
    /\ polling.status # "completed"

\* the request whose run wait threw is answered with a result
RunWaitErrorAbsorbed == (RunWaitRaised /\ pc = "done") => Completed

\* C24: both waits end provided each status query returns: they return on
\* status "completed", raise on a terminal failure status and otherwise raise a
\* timeout once 300 s (vector store) or 120 s (run) have elapsed; what the run
\* wait raises during a request is absorbed by the fallback chain of the
\* Reasoner and does not fail the request.
C24_WaitsEndAndRunWaitErrorIsAbsorbed ==
    /\ WaitsTerminate
    /\ []WaitOutcomesJustified
    /\ []RunWaitErrorAbsorbed

(***************************************************************************)
(* (Re)initialisation of the handles: ProgramSchedulerService's three      *)
(* callers of OpenAIService.uploadAndCreateVectorStore, one await at a     *)
(* time.  Nothing orders the callers: they share no lock.  DOMAIN          *)
(* initializers holds the callers that are invoked: either all three, or   *)
(* the startup call and a manual trigger while a matching request is       *)
(* served (pc = "listening" when no request arrives).                      *)
(***************************************************************************)
InitInit ==
    /\ supportProgram = Table(3)
    /\ requestData \in {r \in RequestsWith("given") : r.region = "other"}
    /\ now = StartTime
    /\ pc \in {"listening", "received"}
    /\ currentVectorStoreId = 0
    /\ currentAssistantId = 0
    /\ hardFilteredPrograms = <<>>
    /\ embeddingFilteredPrograms = <<>>
    /\ scoredPrograms = <<>>
    /\ llmInput = <<>>
    /\ analyses = <<>>
    /\ rawAnswers = NoAnswers
    /\ enhancedPrograms = <<>>
    /\ finalMatches = <<>>
    /\ tiers = <<>>
    /\ stages = {}
    /\ reasonerOutcome = "none"
    /\ raisedIn = "none"
    /\ response = NoResponse
    /\ callStatus = <<>>
    /\ batchOffset = 0
    /\ batchPc = "idle"
    /\ batchResults = <<>>
    /\ delaysDone = {}
    /\ apiData = <<>>
    /\ polling = NotPolling
    /\ initializers = [p \in IF pc = "listening" THEN Initializers ELSE {"startup", "manual"}
                            |-> NotStarted]
    /\ attached = [a \in CreatedIds |-> 0]
    /\ isRunning = FALSE
    /\ syncs = [e \in SyncEntryPoints |-> NoSync]

initVars == <<supportProgram, requestData, now, apiData, polling, isRunning, syncs, pc, batchVars,
              pipelineVars, reasonerVars, stages, raisedIn, response>>

handles == <<currentVectorStoreId, currentAssistantId>>

\* where caller p is after one of its awaits threw: initializeProgramData
\* starts over with updateProgramDataDaily, the other callers give up
Thrown(p) ==
    IF initializers[p].attemptsLeft > 1
    THEN [at |-> "files", attempt |-> initializers[p].attempt + 1,
          attemptsLeft |-> initializers[p].attemptsLeft - 1,
          store |-> 0, target |-> 0, assistant |-> 0]
    ELSE [initializers[p] EXCEPT !.at = "failed"]

\* a variant that assigns currentVectorStoreId as soon as the vector store is
\* ready
HandlesAfterWithEarlyStoreWrite(p, succeeded) ==
    IF initializers[p].at = "wait" /\ succeeded
    THEN <<initializers[p].store, currentAssistantId>>
    ELSE IF initializers[p].at = "assign" /\ succeeded
         THEN <<initializers[p].store, initializers[p].assistant>>
         ELSE handles

\* the handles after the step of uploadAndCreateVectorStore that caller p is
\* at: only the two assignments at its end write them
HandlesAfter(p, succeeded) ==
    IF initializers[p].at = "assign" /\ succeeded
    THEN <<initializers[p].store, initializers[p].assistant>>
    ELSE handles

\* the caller begins.  initializeProgramData returns at once when both
\* handles are set; with an existing data file its upload may throw into the
\* catch block that tries again, without one it calls updateProgramDataDaily,
\* which swallows what it catches
StartInitialization(p) ==
    /\ initializers[p].at = "idle"
    /\ IF p = "startup" /\ currentVectorStoreId # 0 /\ currentAssistantId # 0
       THEN initializers' = [initializers EXCEPT ![p].at = "skipped"]
       ELSE \E existingFile \in (IF p = "startup" THEN BOOLEAN ELSE {FALSE}) :
               initializers' = [initializers EXCEPT
                                  ![p].at = "files",
                                  ![p].attempt = 1,
                                  ![p].attemptsLeft = IF existingFile THEN MaxAttempts ELSE 1]
    /\ UNCHANGED <<initVars, handles, attached>>

\* one await of uploadAndCreateVectorStore before createOrUpdateAssistant:
\* files.create, vectorStores.create, waitForVectorStoreReady
AwaitStep(p, from, to) ==
    /\ initializers[p].at = from
    /\ \E succeeded \in BOOLEAN :
          /\ initializers' =
                [initializers EXCEPT
                   ![p] = IF succeeded
                          THEN [@ EXCEPT !.at = to,
                                         !.store = IF from = "store"
                                                   THEN CreatedId(p, initializers[p].attempt)
                                                   ELSE @]
                          ELSE Thrown(p)]
          /\ currentVectorStoreId' = HandlesAfter(p, succeeded)[1]
          /\ currentAssistantId' = HandlesAfter(p, succeeded)[2]
    /\ UNCHANGED <<initVars, attached>>

FilesCreate(p) == AwaitStep(p, "files", "store")

VectorStoresCreate(p) == AwaitStep(p, "store", "wait")

WaitForVectorStoreReady(p) == AwaitStep(p, "wait", "assistant")

\* createOrUpdateAssistant up to its await: this.currentAssistantId decides
\* between assistants.update of that assistant and assistants.create
CreateOrUpdateAssistant(p) ==
    /\ initializers[p].at = "assistant"
    /\ initializers' = [initializers EXCEPT ![p].at = "remote",
                                            ![p].target = currentAssistantId]
    /\ UNCHANGED <<initVars, handles, attached>>

\* the service serves the request: it attaches the new vector store to the
\* assistant updated or created, or refuses
AssistantRequestServed(p) ==
    /\ initializers[p].at = "remote"
    /\ \E succeeded \in BOOLEAN :
          LET id == IF initializers[p].target # 0
                    THEN initializers[p].target
                    ELSE CreatedId(p, initializers[p].attempt)
          IN IF succeeded
             THEN /\ attached' = [attached EXCEPT ![id] = initializers[p].store]
                  /\ initializers' = [initializers EXCEPT ![p].at = "assign",
                                                          ![p].assistant = id]
             ELSE /\ initializers' = [initializers EXCEPT ![p] = Thrown(p)]
                  /\ UNCHANGED attached
    /\ UNCHANGED <<initVars, handles>>

\* the continuation of uploadAndCreateVectorStore: the two assignments
AssignHandles(p) ==
    /\ initializers[p].at = "assign"
    /\ currentVectorStoreId' = HandlesAfter(p, TRUE)[1]
    /\ currentAssistantId' = HandlesAfter(p, TRUE)[2]
    /\ initializers' = [initializers EXCEPT ![p].at = "done"]
    /\ UNCHANGED <<initVars, attached>>

NextInit ==
    \/ \E p \in DOMAIN initializers : StartInitialization(p)
    \/ \E p \in DOMAIN initializers : FilesCreate(p)
    \/ \E p \in DOMAIN initializers : VectorStoresCreate(p)
    \/ \E p \in DOMAIN initializers : WaitForVectorStoreReady(p)
    \/ \E p \in DOMAIN initializers : CreateOrUpdateAssistant(p)
    \/ \E p \in DOMAIN initializers : AssistantRequestServed(p)
    \/ \E p \in DOMAIN initializers : AssignHandles(p)
    \/ CreateMatching
    \/ ApplyHardFilters
    \/ ApplyEmbeddingFilters
    \/ CalculateScores
    \/ AssistantTier
    \/ BatchTier
    \/ RuleBasedTier
    \/ BuildMatchingResult

SpecInit == InitInit /\ [][NextInit]_vars

Finished(p) == initializers[p].at \in {"done", "failed", "skipped"}

\* C26: once every (re)initialisation has finished, whatever their
\* interleaving, the two handles are both null or both set, and the assistant
\* that currentAssistantId names is attached to the vector store that
\* currentVectorStoreId names.
C26_HandlesAgreeWithService ==
    (\A p \in DOMAIN initializers : Finished(p)) =>
        \/ currentVectorStoreId = 0 /\ currentAssistantId = 0
        \/ /\ currentVectorStoreId # 0
           /\ currentAssistantId # 0
           /\ attached[currentAssistantId] = currentVectorStoreId

\* a step that writes a handle is the pair of assignments of a caller whose
\* every await succeeded
WrittenByCompletedInitialization ==
    handles' # handles =>
        \E p \in DOMAIN initializers :
            /\ initializers[p].at = "assign"
            /\ initializers'[p].at = "done"
            /\ currentVectorStoreId' = initializers[p].store
            /\ currentAssistantId' = initializers[p].assistant

\* caller p's attempt ends with an exception in this step
AttemptFails(p) ==
    /\ initializers'[p] # initializers[p]
    /\ \/ initializers'[p].at = "failed"
       \/ initializers'[p].attempt > initializers[p].attempt /\ initializers[p].attempt > 0

\* C25: a matching request, through whichever tier and whether it succeeds or
\* fails, leaves currentVectorStoreId and currentAssistantId unchanged; only a
\* (re)initialisation writes them, and one that fails at any step leaves both
\* as they were.
C25_HandlesWrittenOnlyByInitialization ==
    /\ [][pc' # pc => handles' = handles]_vars
    /\ [][WrittenByCompletedInitialization]_vars
    /\ [][\A p \in DOMAIN initializers : AttemptFails(p) => handles' = handles]_vars

\* a request was served through the Assistant tier while the service was
\* initialised, and the manual re-initialisation failed after creating its
\* vector store: the handles are those the startup call wrote
C25_Witness ==
    /\ pc = "done"
    /\ tiers # <<>>
    /\ rawAnswers.kind = "json"
    /\ initializers["startup"].at = "done"
    /\ initializers["manual"].at = "failed"
    /\ initializers["manual"].store # 0
    /\ currentVectorStoreId = initializers["startup"].store
    /\ currentAssistantId = initializers["startup"].assistant
    /\ currentVectorStoreId # 0

(***************************************************************************)
(* SyncSchedulerService: the four entry points that start a sync, each     *)
(* called any number of times, and the syncs ending.  A handler runs       *)
(* without interruption up to its await of the sync.                       *)
(***************************************************************************)
\* the largest number of syncs in progress that is explored
MaxSyncs == 2

RECURSIVE SumInProgress(_)
SumInProgress(entryPoints) ==
    IF entryPoints = {} THEN 0
    ELSE LET e == CHOOSE x \in entryPoints : TRUE
         IN syncs[e].inProgress + SumInProgress(entryPoints \ {e})

TotalInProgress == SumInProgress(SyncEntryPoints)

\* the scheduled entry points return when they find a sync in progress, the
\* manual ones throw
Scheduled(e) == e \in {"handleDailySync", "executeDailySync"}

\* a variant in which triggerCategorySync does not test the flag
InProgressUnlessCategorySync(e) == e # "triggerCategorySync" /\ isRunning

\* if (this.isRunning)
SyncAlreadyInProgress(e) == isRunning

\* what the upstream API returns to a sync of the scheduler: one record with
\* an application period and no target information
SchedulerFetches ==
    { s \in ApiDataLists :
        /\ Len(s) = 1
        /\ s[1].trgetNm = NullText
        /\ s[1].reqstBeginEndDe.kind = "range" }

InitScheduler ==
    /\ supportProgram = Table(3)
    /\ requestData \in {r \in RequestsWith("given") : r.region = "seoul"}
    /\ now = StartTime
    /\ pc = "listening"
    /\ currentVectorStoreId = 0
    /\ currentAssistantId = 0
    /\ hardFilteredPrograms = <<>>
    /\ embeddingFilteredPrograms = <<>>
    /\ scoredPrograms = <<>>
    /\ llmInput = <<>>
    /\ analyses = <<>>
    /\ rawAnswers = NoAnswers
    /\ enhancedPrograms = <<>>
    /\ finalMatches = <<>>
    /\ tiers = <<>>
    /\ stages = {}
    /\ reasonerOutcome = "none"
    /\ raisedIn = "none"
    /\ response = NoResponse
    /\ callStatus = <<>>
    /\ batchOffset = 0
    /\ batchPc = "idle"
    /\ batchResults = <<>>
    /\ delaysDone = {}
    /\ Quiescent

schedulerVars == <<requestData, now, polling, initializers, attached, pc, serviceVars,
                   pipelineVars, reasonerVars, stages, raisedIn, response>>

\* an entry point is called: it tests the flag and either gives up or sets
\* the flag and awaits the sync
StartSync(e) ==
    /\ IF SyncAlreadyInProgress(e)
       THEN /\ syncs' = [syncs EXCEPT ![e].last = IF Scheduled(e) THEN "skipped"
                                                   ELSE "already in progress"]
            /\ UNCHANGED isRunning
       ELSE /\ TotalInProgress < MaxSyncs
            /\ isRunning' = TRUE
            /\ syncs' = [syncs EXCEPT ![e].inProgress = @ + 1, ![e].last = "started"]
    /\ UNCHANGED <<schedulerVars, supportProgram, apiData>>

HandleDailySync == StartSync("handleDailySync")

ExecuteDailySync == StartSync("executeDailySync")

TriggerManualSync == StartSync("triggerManualSync")

TriggerCategorySync == StartSync("triggerCategorySync")

\* the sync awaited by entry point e ends: syncAllPrograms or
\* syncProgramsByCategory returns after its upserts, or throws; the finally
\* block clears the flag
SyncEnds(e) ==
    /\ syncs[e].inProgress > 0
    /\ \E raised \in BOOLEAN :
          IF raised
          THEN /\ syncs' = [syncs EXCEPT ![e].inProgress = @ - 1, ![e].last = "failed"]
               /\ UNCHANGED <<supportProgram, apiData>>
          ELSE /\ syncs' = [syncs EXCEPT ![e].inProgress = @ - 1, ![e].last = "completed"]
               /\ \E fetched \in SchedulerFetches :
                     /\ apiData' = fetched
                     /\ supportProgram' =
                           UpsertAll(supportProgram, mapMultipleProgramsData(fetched))
    /\ isRunning' = FALSE
    /\ UNCHANGED schedulerVars

NextScheduler ==
    \/ HandleDailySync
    \/ ExecuteDailySync
    \/ TriggerManualSync
    \/ TriggerCategorySync
    \/ \E e \in SyncEntryPoints : SyncEnds(e)

SpecScheduler == InitScheduler /\ [][NextScheduler]_vars

\* C27: at most one sync started through handleDailySync, executeDailySync,
\* triggerManualSync or triggerCategorySync is in progress at any time; a call
\* that finds isRunning true starts no sync (the scheduled ones return, the
\* manual ones throw "already in progress"), and isRunning is false again when
\* the running sync has ended, whether it succeeded or raised.
C27_AtMostOneSync ==
    /\ [](TotalInProgress <= 1 /\ (isRunning <=> TotalInProgress = 1))
    /\ [][isRunning =>
             /\ TotalInProgress' <= TotalInProgress
             /\ \A e \in SyncEntryPoints :
                   syncs'[e].last # syncs[e].last /\ syncs'[e].inProgress = syncs[e].inProgress
                   => syncs'[e].last = IF Scheduled(e) THEN "skipped"
                                       ELSE "already in progress"]_vars
    /\ [][TotalInProgress' < TotalInProgress => ~isRunning']_vars

\* the daily sync is in progress; meanwhile a manual trigger was refused, a
\* direct executeDailySync was skipped, and before that a category sync raised
C27_Witness ==
    /\ isRunning
    /\ syncs["handleDailySync"].inProgress = 1
    /\ syncs["triggerManualSync"].last = "already in progress"
    /\ syncs["executeDailySync"].last = "skipped"
    /\ syncs["triggerCategorySync"].last = "failed"

(***************************************************************************)
(* analyzeBatchMatching as Tier 2 of a request uses it                     *)
(***************************************************************************)
\* Tier 2 has called analyzeBatchMatching; rawAnswers.items holds the outcome
\* of each candidate's call, analyses what analyzeBatchMatching returned
BatchAnalysed == rawAnswers.kind = "calls"

\* a call of candidate i's batch failed
InFailedBatch(i) ==
    \E j \in DOMAIN rawAnswers.items :
        BatchOf(j) = BatchOf(i) /\ rawAnswers.items[j].kind = "fail"

IsDefaultJudgment(analysis) ==
    /\ analysis.matchScore = ONE \div 2
    /\ analysis.confidence = (ONE * 3) \div 10

\* C28: analyzeBatchMatching never raises and returns one judgment per input
\* candidate, in input order; when a call of a batch of up to 5 fails, every
\* candidate of that batch gets the default judgment (score 0.5, confidence
\* 0.3) and is therefore enhanced by the rules, while the judgments of the
\* other batches are those of their own calls.
C28_FailedBatchGetsDefaults ==
    BatchAnalysed =>
        /\ Len(analyses) = Len(llmInput)
        /\ Len(rawAnswers.items) = Len(llmInput)
        /\ \A i \in DOMAIN llmInput :
              IF InFailedBatch(i)
              THEN /\ IsDefaultJudgment(analyses[i])
                   /\ pc \in {"build", "done"} =>
                         /\ Len(enhancedPrograms) = Len(llmInput)
                         /\ enhancedPrograms[i] = RuleBasedOf(llmInput[i])
              ELSE analyses[i] = NormalizeFunctionCall(rawAnswers.items[i])

(***************************************************************************)
(* The whole funnel on tables large enough for each stage's cap to bind:   *)
(* a request that has passed stage 1 on a table of up to                   *)
(* MaxRelevancePrograms rows goes through stages 2 to 4.                   *)
(***************************************************************************)
InitFunnel ==
    /\ supportProgram \in {Table(21), Table(MaxRelevancePrograms)}
    /\ requestData \in {r \in RequestsWith("given") : r.businessType = "corporation"}
    /\ now = StartTime
    /\ hardFilteredPrograms = applyHardFilters(supportProgram, requestData, now)
    /\ hardFilteredPrograms # <<>>
    /\ pc = "embedding"
    /\ stages = {"HardFilter"}
    /\ currentVectorStoreId = 0
    /\ currentAssistantId = 0
    /\ embeddingFilteredPrograms = <<>>
    /\ scoredPrograms = <<>>
    /\ llmInput = <<>>
    /\ analyses = <<>>
    /\ rawAnswers = NoAnswers
    /\ enhancedPrograms = <<>>
    /\ finalMatches = <<>>
    /\ tiers = <<>>
    /\ reasonerOutcome = "none"
    /\ raisedIn = "none"
    /\ response = NoResponse
    /\ callStatus = <<>>
    /\ batchOffset = 0
    /\ batchPc = "idle"
    /\ batchResults = <<>>
    /\ delaysDone = {}
    /\ Quiescent

NextFunnel ==
    \/ UploadAndCreateVectorStore
    \/ ApplyEmbeddingFilters
    \/ CalculateScores
    \/ AssistantTier
    \/ BatchTier
    \/ RuleBasedTier
    \/ BuildMatchingResult

SpecFunnel == InitFunnel /\ [][NextFunnel]_vars

\* the list handed to the Reasoner is the head of the scored list, and no
\* scored candidate left out has a higher composite than one handed over
HighestComposites ==
    /\ Len(llmInput) <= LlmTopN
    /\ Len(llmInput) <= Len(scoredPrograms)
    /\ \A i \in DOMAIN llmInput : llmInput[i] = scoredPrograms[i]
    /\ \A i \in DOMAIN llmInput, j \in DOMAIN scoredPrograms :
          j > Len(llmInput) => ~ScoreHigher(scoredPrograms[j].matchScore, llmInput[i].matchScore)

\* C29: in every successful result filteredCount <= min(50, totalCandidates),
\* at most the 20 candidates of highest composite were handed to the Reasoner,
\* finalMatches.length <= min(10, filteredCount), and finalMatches.length >= 1
\* whenever totalCandidates >= 1.
C29_StageCountsConsistent ==
    Completed =>
        /\ response.filteredCount <= Min2(EmbeddingTopN, response.totalCandidates)
        /\ HighestComposites
        /\ Len(response.finalMatches) <= Min2(FinalTopN, response.filteredCount)
        /\ response.totalCandidates >= 1 => Len(response.finalMatches) >= 1

\* more than 50 candidates passed stage 1, 50 passed stage 2, 20 of them with
\* a composite no lower than the rest went to the Reasoner, and 10 came back
C29_Witness ==
    /\ Completed
    /\ response.totalCandidates > EmbeddingTopN
    /\ response.filteredCount = EmbeddingTopN
    /\ Len(llmInput) = LlmTopN
    /\ \E j \in DOMAIN scoredPrograms :
          j > LlmTopN /\ ScoreHigher(llmInput[1].matchScore, scoredPrograms[j].matchScore)
    /\ Len(response.finalMatches) = FinalTopN

(***************************************************************************)
(* The sub-scores of the candidates that reach the WeightedScorer through  *)
(* the pipeline                                                            *)
(***************************************************************************)
\* the profile has a category preference and one of the four urgency tiers
PreferenceAndUrgencyGiven ==
    /\ Len(requestData.targetPrograms) > 0
    /\ requestData.urgency \in {"immediate", "short", "medium", "long"}

\* the sub-scores the scorer computed for the scored program sp
PipelineSubScores(sp) ==
    SubScores(embeddingFilteredPrograms[CHOOSE j \in ScoredFrom(sp) : TRUE], requestData, now)

\* category 1.0, and deadline 1.0 with a fixed deadline, 0.8 without one
CategoryAndDeadlineFixed(sp) ==
    /\ PipelineSubScores(sp).category = 10
    /\ PipelineSubScores(sp).deadline = IF sp.deadline = NullNum THEN 8 ELSE 10

SameAmountRegionSize(a, b) ==
    /\ PipelineSubScores(a).amount = PipelineSubScores(b).amount
    /\ PipelineSubScores(a).region = PipelineSubScores(b).region
    /\ PipelineSubScores(a).companySize = PipelineSubScores(b).companySize

\* the part of the composite that the amount, region and company-size
\* sub-scores contribute, in thousandths
AmountRegionSizePart(sp) ==
    25 * PipelineSubScores(sp).amount + 15 * PipelineSubScores(sp).region
      + 10 * PipelineSubScores(sp).companySize

=============================================================================
